---- MODULE Spec2Model ----
(***************************************************************************)
(* Model of the multi-tier test discovery and generation pipeline          *)
(* (Analysis/test_generation_pipeline/pipeline.py and run_pipeline.py).    *)
(*                                                                         *)
(* Text is modelled at the granularity the regular expressions of the      *)
(* extractor see it: a file content is a sequence of tokens, where one     *)
(* token is either a whole match of a method-header pattern (it ends with  *)
(* the opening brace of the method), a brace, the text "extends TestCase", *)
(* or any other character.                                                 *)
(***************************************************************************)
EXTENDS Integers, Sequences, FiniteSets, TLC

\* ------------------------------------------------------------------------
\* Bounds of the model
\* ------------------------------------------------------------------------
MaxLen == 4

\* ------------------------------------------------------------------------
\* File contents
\* ------------------------------------------------------------------------
MethodNames == {"testAdd", "testB"}

\* "@Test\n void n() {"        : matched by pat4 only
\* "public void n() {"         : matched by pat3 only (n begins with "test")
\* "@Test\n public void n() {" : matched by pat4, and by pat3 from "public"
HeaderKinds == {"ann", "leg", "both"}

Hdr(k, n) == [k |-> k, n |-> n]
OpenBrace == [k |-> "open", n |-> ""]
CloseBrace == [k |-> "close", n |-> ""]
OtherChar == [k |-> "chr", n |-> ""]
ExtendsTestCase == [k |-> "ext", n |-> ""]

Tok == {Hdr(k, n) : k \in HeaderKinds, n \in MethodNames}
          \cup {OpenBrace, CloseBrace, OtherChar, ExtendsTestCase}

Contents == UNION {[1..l -> Tok] : l \in 0..MaxLen}

\* Number of "{" and of "}" characters in a token.
Opens(t) == IF t.k \in HeaderKinds \cup {"open"} THEN 1 ELSE 0
Closes(t) == IF t.k = "close" THEN 1 ELSE 0

\* pat4 (JUnit 4/5 annotation pattern) matches at token t
pat4(t) == t.k \in {"ann", "both"}
\* pat3 (JUnit 3 legacy pattern) matches at (inside) token t
pat3(t) == t.k \in {"leg", "both"}

\* ------------------------------------------------------------------------
\* TestExtractionPipeline._extract_method_body
\* ------------------------------------------------------------------------
\* The while loop: returns <<i, depth>> at loop exit (i is 1-based).
RECURSIVE ScanBraces(_, _, _)
ScanBraces(content, i, depth) ==
    IF i <= Len(content) /\ depth > 0
    THEN ScanBraces(content, i + 1,
                    depth + Opens(content[i]) - Closes(content[i]))
    ELSE <<i, depth>>

\* Mutant: the depth test of the return statement is dropped.
extract_method_body_nodepth(content, brace_pos) ==
    LET r == ScanBraces(content, brace_pos + 1, 1)
    IN  SubSeq(content, brace_pos + 1, r[1] - 2)

\* content[brace_pos + 1 : i - 1] if depth == 0 else ""
extract_method_body(content, brace_pos) ==
    LET r == ScanBraces(content, brace_pos + 1, 1)
    IN  IF r[2] = 0 THEN SubSeq(content, brace_pos + 1, r[1] - 2) ELSE <<>>

\* ------------------------------------------------------------------------
\* TestExtractionPipeline.extract_test_methods
\* ------------------------------------------------------------------------
\* One test dict as appended by either loop; code is
\* file_content[m.start() : m.end() - 1 + len(body) + 1]
TestDict(content, pos, body, file_path, annotation) ==
    [method_name |-> content[pos].n,
     code        |-> SubSeq(content, pos, pos + Len(body)),
     file_path   |-> file_path,
     annotation  |-> annotation]

\* One finditer loop over the matches of a pattern, from position i on.
\* st = [seen |-> set of names, tests |-> sequence of test dicts]
RECURSIVE MatchLoop(_, _, _, _, _, _)
MatchLoop(content, i, legacy, file_path, annotation, st) ==
    IF i > Len(content) THEN st
    ELSE IF ~(IF legacy THEN pat3(content[i]) ELSE pat4(content[i]))
    THEN MatchLoop(content, i + 1, legacy, file_path, annotation, st)
    ELSE IF content[i].n \in st.seen
    THEN MatchLoop(content, i + 1, legacy, file_path, annotation, st)
    ELSE LET body == extract_method_body(content, i)
             st2 == [seen  |-> st.seen \cup {content[i].n},
                     tests |-> IF body # <<>>
                               THEN Append(st.tests,
                                      TestDict(content, i, body, file_path,
                                               annotation))
                               ELSE st.tests]
         IN  MatchLoop(content, i + 1, legacy, file_path, annotation, st2)

HasExtendsTestCase(content) ==
    \E i \in 1..Len(content) : content[i] = ExtendsTestCase

\* Mutant: the JUnit 3 loop starts from an empty "seen" set.
extract_test_methods_seen_reset(file_content, file_path) ==
    LET st4 == MatchLoop(file_content, 1, FALSE, file_path, "@Test",
                         [seen |-> {}, tests |-> <<>>])
        st3 == IF HasExtendsTestCase(file_content)
               THEN MatchLoop(file_content, 1, TRUE, file_path,
                              "extends TestCase",
                              [seen |-> {}, tests |-> st4.tests])
               ELSE st4
    IN  st3.tests

\* Mutant: the JUnit 3 loop tags its tests like the annotation loop does.
extract_test_methods_tag_copied(file_content, file_path) ==
    LET st4 == MatchLoop(file_content, 1, FALSE, file_path, "@Test",
                         [seen |-> {}, tests |-> <<>>])
        st3 == IF HasExtendsTestCase(file_content)
               THEN MatchLoop(file_content, 1, TRUE, file_path, "@Test", st4)
               ELSE st4
    IN  st3.tests

extract_test_methods(file_content, file_path) ==
    LET st4 == MatchLoop(file_content, 1, FALSE, file_path, "@Test",
                         [seen |-> {}, tests |-> <<>>])
        st3 == IF HasExtendsTestCase(file_content)
               THEN MatchLoop(file_content, 1, TRUE, file_path,
                              "extends TestCase", st4)
               ELSE st4
    IN  st3.tests

\* "package org.x;" and "class Foo" inside a file content
PackageDecl(n) == [k |-> "pkg", n |-> n]
ClassDecl(n) == [k |-> "cls", n |-> n]

\* TestExtractionPipeline.extract_package: the first package statement
extract_package(content) ==
    IF \E i \in 1..Len(content) : content[i].k = "pkg"
    THEN content[CHOOSE i \in 1..Len(content) :
                    /\ content[i].k = "pkg"
                    /\ \A j \in 1..(i - 1) : content[j].k # "pkg"].n
    ELSE "None"

\* ------------------------------------------------------------------------
\* File paths.  A path is its directory names, the words of the file's base
\* name ("FooTest" is <<"Foo", "Test">>) and its extension.
\* ------------------------------------------------------------------------
Path(dirs, base, ext) == [dirs |-> dirs, base |-> base, ext |-> ext]

\* Path(file_path).stem as one name
Stem(path) == path.base

\* TestExtractionPipeline.extract_classname: the first class declaration,
\* else the stem of the file path
extract_classname(content, file_path) ==
    IF \E i \in 1..Len(content) : content[i].k = "cls"
    THEN <<content[CHOOSE i \in 1..Len(content) :
                      /\ content[i].k = "cls"
                      /\ \A j \in 1..(i - 1) : content[j].k # "cls"].n>>
    ELSE Stem(file_path)

\* "/s1/s2/" in path: the names occur in a row, after a first segment and
\* before the file name.
HasSegs(path, segs) ==
    \E i \in 2..(Len(path.dirs) - Len(segs) + 1) :
        SubSeq(path.dirs, i, i + Len(segs) - 1) = segs

\* path.replace("/src/main/<rest>", "/src/test/<rest>") for segs =
\* <<"src", "main">> \o rest
ReplaceMainByTest(path, segs) ==
    [j \in 1..Len(path.dirs) |->
        IF \E i \in 2..(Len(path.dirs) - Len(segs) + 1) :
              /\ SubSeq(path.dirs, i, i + Len(segs) - 1) = segs
              /\ j = i + 1
        THEN "test"
        ELSE path.dirs[j]]

SrcMain == <<"src", "main">>
SrcMainJava == <<"src", "main", "java">>
SrcTest == <<"src", "test">>

\* TestExtractionPipeline._find_test_candidates
find_test_candidates(source_file) ==
    IF ~HasSegs(source_file, SrcMain) THEN <<>>
    ELSE IF source_file.ext # ".java" THEN <<>>
    ELSE LET test_dirs == IF HasSegs(source_file, SrcMainJava)
                          THEN ReplaceMainByTest(source_file, SrcMainJava)
                          ELSE ReplaceMainByTest(source_file, SrcMain)
             stem == source_file.base
         IN  << Path(test_dirs, stem \o <<"Test">>, ".java"),
                Path(test_dirs, stem \o <<"Tests">>, ".java"),
                Path(test_dirs, stem \o <<"IT">>, ".java"),
                Path(test_dirs, stem \o <<"TestCase">>, ".java"),
                Path(test_dirs, <<"Test">> \o stem, ".java") >>

\* Mutant: only the file name decides
is_test_file_by_name(file_path) ==
    /\ file_path.ext = ".java"
    /\ file_path.base # <<>>
    /\ \/ file_path.base[Len(file_path.base)] \in {"Test", "Tests", "IT"}
       \/ file_path.base[1] \in {"Test", "Tests", "TestCase"}

\* word.startswith("Test")
StartsWithTest(word) == word \in {"Test", "Tests", "TestCase"}

\* TestExtractionPipeline.is_test_file
is_test_file(file_path) ==
    \/ HasSegs(file_path, SrcTest)
    \/ /\ file_path.ext = ".java"
       /\ file_path.base # <<>>
       /\ \/ file_path.base[Len(file_path.base)] \in {"Test", "Tests"}
          \/ StartsWithTest(file_path.base[1])
          \/ file_path.base[Len(file_path.base)] = "IT"

\* ------------------------------------------------------------------------
\* The commits of the dataset and the remote repositories
\* ------------------------------------------------------------------------
Projects == {"p", "q"}

ModMainDirs == <<"mod", "src", "main", "java", "org", "x">>
ModTestDirs == <<"mod", "src", "test", "java", "org", "x">>

\* mod/src/main/java/org/x/Foo.java
F_main == Path(ModMainDirs, <<"Foo">>, ".java")
\* mod/src/test/java/org/x/FooTest.java
F_test == Path(ModTestDirs, <<"Foo", "Test">>, ".java")
\* src/main/java/org/x/Foo.java (a source file of the root module)
F_root == Path(<<"src", "main", "java", "org", "x">>, <<"Foo">>, ".java")
\* mod/src/test/java/org/x/Checks.java (a test not named after a class)
F_checks == Path(ModTestDirs, <<"Checks">>, ".java")

\* mod/src/main/java/org/x/sub/Bar.java and mod/src/main/java/org/y/Baz.java
F_sub == Path(ModMainDirs \o <<"sub">>, <<"Bar">>, ".java")
F_other == Path(<<"mod", "src", "main", "java", "org", "y">>, <<"Baz">>,
                ".java")
\* Files under mod/src/test/java: org/x/data.xml, org/x/sub/SubChecks.java
\* and the empty file org/y/.gitkeep
F_data == Path(ModTestDirs, <<"data">>, ".xml")
F_subchecks == Path(ModTestDirs \o <<"sub">>, <<"Sub", "Checks">>, ".java")
F_keep == Path(<<"mod", "src", "test", "java", "org", "y">>, <<".gitkeep">>,
               "")

\* A test class with one annotated test method
ContentOneTest ==
    << PackageDecl("org.x"), ClassDecl("FooTest"),
       Hdr("ann", "testAdd"), OtherChar, CloseBrace, CloseBrace >>
\* A test class without a package, with two legacy test methods
ContentLegacy ==
    << ClassDecl("Checks"), ExtendsTestCase,
       Hdr("leg", "testB"), OtherChar, CloseBrace,
       Hdr("leg", "testAdd"), OtherChar, CloseBrace, CloseBrace >>

\* The files under mod/src/test at each revision, in the order git lists
\* them, with their contents: revision a1 has the conventional FooTest.java,
\* b2 only a test class with an unrelated name, c3 no test at all, d4 test
\* classes with unrelated names in a package and in a package below it, a
\* file that is no Java source, and an empty file.
Tree(sha) ==
    CASE sha = "a1" -> << [path |-> F_test, content |-> ContentOneTest] >>
      [] sha = "b2" -> << [path |-> F_checks, content |-> ContentLegacy] >>
      [] sha = "d4" -> << [path |-> F_checks, content |-> ContentLegacy],
                          [path |-> F_data, content |-> <<OtherChar>>],
                          [path |-> F_subchecks,
                           content |-> ContentOneTest],
                          [path |-> F_keep, content |-> <<>>] >>
      [] OTHER -> << >>

\* The dataset lines: commit records (distinct project/revision pairs) and
\* a line that is not valid JSON.
Commit(project, sha, files) ==
    [project |-> project, commit_sha |-> sha, files |-> files]
Malformed == [project |-> "", commit_sha |-> "", files |-> <<>>]

CommitRecords ==
    { Commit("p", "a1", <<F_main>>),
      Commit("p", "b2", <<F_main>>),
      Commit("q", "c3", <<F_main, F_test>>) }

\* git show <sha>:<filepath>, <<>> when the path does not exist at sha
git_show(sha, filepath) ==
    IF \E i \in 1..Len(Tree(sha)) : Tree(sha)[i].path = filepath
    THEN Tree(sha)[CHOOSE i \in 1..Len(Tree(sha)) :
                       Tree(sha)[i].path = filepath].content
    ELSE <<>>

\* dirs is a prefix of the directories of path
UnderPrefix(path, dirs) ==
    /\ Len(dirs) <= Len(path.dirs)
    /\ SubSeq(path.dirs, 1, Len(dirs)) = dirs

RECURSIVE SelectUnder(_, _)
SelectUnder(entries, dirs) ==
    IF entries = <<>> THEN <<>>
    ELSE (IF UnderPrefix(Head(entries).path, dirs)
          THEN <<Head(entries).path>> ELSE <<>>)
             \o SelectUnder(Tail(entries), dirs)

\* git ls-tree -r --name-only <sha> -- <prefix>
git_ls_tree(sha, prefix) == SelectUnder(Tree(sha), prefix)

\* ------------------------------------------------------------------------
\* Tier 1: TestExtractionPipeline.process_commit
\* ------------------------------------------------------------------------
\* Stands for a test dict that has no "tier" key
NoTierKey == 0

\* t.update({...}) of process_commit (tier = NoTierKey: no "tier" key is
\* set) and of check_commits (tier = 2)
RECURSIVE UpdateTests(_, _, _, _, _, _)
UpdateTests(methods, project, sha, content, file_path, tier) ==
    IF methods = <<>> THEN <<>>
    ELSE LET t == Head(methods)
             pkg == extract_package(content)
             cname == extract_classname(content, file_path)
         IN  << [method_name |-> t.method_name,
                 code        |-> t.code,
                 file_path   |-> t.file_path,
                 annotation  |-> t.annotation,
                 project     |-> project,
                 commit_sha  |-> sha,
                 package     |-> pkg,
                 class_name  |-> cname,
                 fqcn        |-> IF pkg # "None" THEN <<pkg>> \o cname
                                 ELSE cname,
                 tier        |-> tier] >>
               \o UpdateTests(Tail(methods), project, sha, content,
                              file_path, tier)

\* The loop over the candidates of one changed file (pipeline.py 297-326).
\* acc = [seen |-> seen_test_paths, result |-> result,
\*        tried, found |-> increments of the two stats counters,
\*        shown |-> the paths git_show was called with, in call order]
RECURSIVE CandidateLoop(_, _, _, _)
CandidateLoop(candidates, project, sha, acc) ==
    IF candidates = <<>> THEN acc
    ELSE LET cand == Head(candidates)
             rest == Tail(candidates)
         IN  IF cand \in acc.seen
             THEN CandidateLoop(rest, project, sha, acc)
             ELSE LET content == git_show(sha, cand)
                      acc1 == [acc EXCEPT !.seen = @ \cup {cand},
                                          !.tried = @ + 1,
                                          !.shown = Append(@, cand)]
                  IN  IF content = <<>>
                      THEN CandidateLoop(rest, project, sha, acc1)
                      ELSE LET methods == extract_test_methods(content, cand)
                               acc2 == [acc1 EXCEPT
                                          !.found = @ + 1,
                                          !.result.test_files_found = @ + 1]
                           IN  IF methods = <<>>
                               THEN CandidateLoop(rest, project, sha, acc2)
                               ELSE CandidateLoop(rest, project, sha,
                                      [acc2 EXCEPT
                                         !.result.extracted = @ \o
                                             UpdateTests(methods, project,
                                                 sha, content, cand,
                                                 NoTierKey),
                                         !.result.test_methods =
                                             @ + Len(methods)])

\* Mutant: seen_test_paths is emptied for every changed file
RECURSIVE FileLoop_seen_per_file(_, _, _, _)
FileLoop_seen_per_file(files, project, sha, acc) ==
    IF files = <<>> THEN acc
    ELSE LET fpath == Head(files)
         IN  IF fpath.ext # ".java"
             THEN FileLoop_seen_per_file(Tail(files), project, sha, acc)
             ELSE LET candidates == IF is_test_file(fpath) THEN <<fpath>>
                                    ELSE find_test_candidates(fpath)
                      acc1 == [acc EXCEPT !.result.files_checked = @ + 1,
                                          !.seen = {}]
                  IN  FileLoop_seen_per_file(Tail(files), project, sha,
                               CandidateLoop(candidates, project, sha, acc1))

\* The loop over the changed files (pipeline.py 282-326)
RECURSIVE FileLoop(_, _, _, _)
FileLoop(files, project, sha, acc) ==
    IF files = <<>> THEN acc
    ELSE LET fpath == Head(files)
         IN  IF fpath.ext # ".java"
             THEN FileLoop(Tail(files), project, sha, acc)
             ELSE LET candidates == IF is_test_file(fpath) THEN <<fpath>>
                                    ELSE find_test_candidates(fpath)
                      acc1 == [acc EXCEPT !.result.files_checked = @ + 1]
                  IN  FileLoop(Tail(files), project, sha,
                               CandidateLoop(candidates, project, sha, acc1))

\* A revision no repository has
NoRevision == "none"

\* The revision as the git commands run on the directory repo see it: a
\* directory left by a killed clone is no complete repository, git show and
\* git ls-tree fail on it for every path as they do for an unknown revision
Readable(repo, sha) == IF repo = "partial" THEN NoRevision ELSE sha

\* Mutant: the files are looked up although clone_repo returned None
process_commit_clone_unchecked(commit_data, repo_ok, rev) ==
    LET result == [project          |-> commit_data.project,
                   commit_sha       |-> commit_data.commit_sha,
                   files_checked    |-> 0,
                   test_files_found |-> 0,
                   test_methods     |-> 0,
                   extracted        |-> <<>>]
        acc0 == [seen |-> {}, result |-> result, tried |-> 0, found |-> 0,
                 shown |-> <<>>]
    IN  FileLoop(commit_data.files, commit_data.project, rev, acc0)

\* process_commit, given whether clone_repo returned a repository and the
\* revision rev its git commands see
process_commit(commit_data, repo_ok, rev) ==
    LET result == [project          |-> commit_data.project,
                   commit_sha       |-> commit_data.commit_sha,
                   files_checked    |-> 0,
                   test_files_found |-> 0,
                   test_methods     |-> 0,
                   extracted        |-> <<>>]
        acc0 == [seen |-> {}, result |-> result, tried |-> 0, found |-> 0,
                 shown |-> <<>>]
    IN  IF ~repo_ok THEN acc0
        ELSE FileLoop(commit_data.files, commit_data.project, rev, acc0)

\* ------------------------------------------------------------------------
\* Tier 2: DoubleCheckExtraction
\* ------------------------------------------------------------------------
\* _test_prefix_for_source: the directory of the test-source location;
\* <<>> stands for None
test_prefix_for_source(source_file) ==
    IF HasSegs(source_file, SrcMainJava)
    THEN ReplaceMainByTest(source_file, SrcMainJava)
    ELSE IF HasSegs(source_file, SrcMain)
    THEN ReplaceMainByTest(source_file, SrcMain)
    ELSE <<>>

\* The set of prefixes collected from the files of a commit (469-480)
PrefixesOf(commit) ==
    { test_prefix_for_source(commit.files[i]) :
        i \in { j \in 1..Len(commit.files) :
                  /\ commit.files[j].ext = ".java"
                  /\ ~is_test_file(commit.files[j])
                  /\ test_prefix_for_source(commit.files[j]) # <<>> } }

\* Mutant: a file that was retrieved already is retrieved again
RECURSIVE TreeFileLoop_unseen(_, _, _, _)
TreeFileLoop_unseen(tree_files, project, sha, acc) ==
    IF tree_files = <<>> THEN acc
    ELSE LET tf == Head(tree_files)
             rest == Tail(tree_files)
         IN  IF ~is_test_file(tf)
             THEN TreeFileLoop_unseen(rest, project, sha, acc)
             ELSE LET content == git_show(sha, tf)
                      methods == extract_test_methods(content, tf)
                      acc1 == [acc EXCEPT
                                 !.shown = Append(@, tf),
                                 !.parsed = IF content = <<>> THEN @
                                            ELSE Append(@, tf)]
                  IN  IF content = <<>> \/ methods = <<>>
                      THEN TreeFileLoop_unseen(rest, project, sha, acc1)
                      ELSE TreeFileLoop_unseen(rest, project, sha,
                             [acc1 EXCEPT
                                !.found_any = TRUE,
                                !.tests = @ \o UpdateTests(methods, project,
                                                  sha, content, tf, 2)])

\* The state of check_commits before the loop over the prefixes (485-486);
\* shown and parsed are the paths given to git_show and to
\* extract_test_methods, in call order
TreeAcc0 ==
    [seen_paths |-> {}, found_any |-> FALSE, tests |-> <<>>,
     shown |-> <<>>, parsed |-> <<>>]

\* The loop over the files listed under one prefix (492-520).
\* acc = [seen_paths, found_any, tests |-> recovered tests to append,
\*        shown, parsed]
RECURSIVE TreeFileLoop(_, _, _, _)
TreeFileLoop(tree_files, project, sha, acc) ==
    IF tree_files = <<>> THEN acc
    ELSE LET tf == Head(tree_files)
             rest == Tail(tree_files)
         IN  IF tf \in acc.seen_paths \/ ~is_test_file(tf)
             THEN TreeFileLoop(rest, project, sha, acc)
             ELSE LET content == git_show(sha, tf)
                      methods == extract_test_methods(content, tf)
                      acc1 == [acc EXCEPT
                                 !.seen_paths = @ \cup {tf},
                                 !.shown = Append(@, tf),
                                 !.parsed = IF content = <<>> THEN @
                                            ELSE Append(@, tf)]
                  IN  IF content = <<>> \/ methods = <<>>
                      THEN TreeFileLoop(rest, project, sha, acc1)
                      ELSE TreeFileLoop(rest, project, sha,
                             [acc1 EXCEPT
                                !.found_any = TRUE,
                                !.tests = @ \o UpdateTests(methods, project,
                                                  sha, content, tf, 2)])

\* The loop over the prefixes in the order the set is iterated (488-520)
RECURSIVE PrefixLoop(_, _, _, _)
PrefixLoop(order, project, sha, acc) ==
    IF order = <<>> THEN acc
    ELSE PrefixLoop(Tail(order), project, sha,
                    TreeFileLoop(git_ls_tree(sha, Head(order)), project,
                                 sha, acc))

\* The orders in which a set can be iterated
Orders(S) ==
    { f \in [1..Cardinality(S) -> S] :
        \A i, j \in 1..Cardinality(S) : i # j => f[i] # f[j] }

\* ------------------------------------------------------------------------
\* State
\* ------------------------------------------------------------------------
VARIABLES
    x_content,   \* extractor: the file content given to extract_test_methods
    x_tests,     \* extractor: the list it returned
    x_pc,        \* extractor: "call" before the call, "done" after it
    c_file,      \* candidates: the path given to _find_test_candidates
    c_candidates,\* candidates: the list it returned
    c_pc,        \* candidates: "call" before the call, "done" after it
    \* --- the process runs ---------------------------------------------
    run_no,      \* the number of this run of run_pipeline.py
    start_repo,  \* bare_repo as this run found it
    first,       \* history: the first run's arguments and Tier 1 output
    \* --- run_pipeline.main -------------------------------------------
    args_tier,   \* --tier: 0 (None) or 1..4
    args_limit,  \* --limit: 0 (None) or a positive number
    dataset,     \* the lines of the dataset file
    pc,          \* position of main
    tier_results,\* keys of main's tier_results
    \* --- the disk ----------------------------------------------------
    bare_repo,   \* per project: state of <repos_dir>/<project>.git
    cwt_file,    \* tier1_extracted/commits_without_tests.json
    t1_out,      \* tier1_extracted/extraction_results.json and
                 \* extracted_tests.json
    \* --- TestExtractionPipeline (extractor) --------------------------
    cloned,      \* self._cloned: "unset", "dir" or "none" per project
    idx,         \* line number of the next dataset line
    stats,       \* self.stats
    all_results, \* all_results of process_dataset
    all_tests,   \* self.all_tests
    commits_without_tests,   \* self.commits_without_tests
    clone_calls, \* history: per project, the calls of clone_repo
    show_log,    \* history: per Tier 1 commit, the paths given to git_show
    \* --- DoubleCheckExtraction (checker) -----------------------------
    t2_i,        \* number of commits check_commits has iterated over
    t2_stats,    \* self.stats
    recovered_tests,         \* self.recovered_tests
    t2_log,      \* history: the commits check_commits has processed
    \* --- Tier 3 in main ----------------------------------------------
    commits_needing,         \* main's commits_needing
    failed_commits,          \* main's failed_commits
    e_i,         \* EvoSuite process_commits: commits iterated over
    evo_stats,   \* EvoSuiteTestGenerator.stats
    evo_results, \* results of EvoSuite process_commits
    r_i,         \* Randoop process_commits: commits iterated over
    rd_stats,    \* RandoopTestGenerator.stats
    rd_results,  \* results of Randoop process_commits
    \* --- one Tier 3 generator, stage by stage ------------------------
    g_tool,      \* "evosuite" or "randoop": the class of the generator
    g_jar,       \* whether self.evosuite_jar / self.randoop_jar exists
    g_commits,   \* the argument of process_commits
    g_i,         \* process_commits: commits iterated over
    g_pc,        \* position inside generate_for_commit
    g_stats,     \* self.stats
    g_results,   \* results of process_commits
    g_repo,      \* disk: per project, <output_dir>/repos/<project>
    g_out,       \* disk: per commit, test files in <project>_<sha8>_tests
    g_module,    \* compile_project: target_module (<<>> is None)
    g_classes,   \* generate_for_commit: classes
    g_k,         \* generate_tests_evosuite: classes iterated over
    g_tests,     \* tests_generated, the count the generator returns
    g_log,       \* history: external calls made for the current commit
    g_hist       \* history: per result, the stage at which it was decided

x_vars == <<x_content, x_tests, x_pc>>
c_vars == <<c_file, c_candidates, c_pc>>
run_vars == <<run_no, start_repo, first>>
\* The variables main and the generators never write
o_vars == <<x_vars, c_vars, run_vars>>
arg_vars == <<args_tier, args_limit, dataset>>
disk_vars == <<bare_repo, cwt_file, t1_out>>
t1_vars == <<cloned, idx, stats, all_results, all_tests,
             commits_without_tests, clone_calls, show_log>>
t2_vars == <<t2_i, t2_stats, recovered_tests, t2_log>>
t3_vars == <<commits_needing, failed_commits, e_i, evo_stats, evo_results,
             r_i, rd_stats, rd_results>>
main_vars == <<arg_vars, pc, tier_results, disk_vars, t1_vars, t2_vars,
               t3_vars>>

gen_vars == <<g_tool, g_jar, g_commits, g_i, g_pc, g_stats, g_results,
              g_repo, g_out, g_module, g_classes, g_k, g_tests,
              g_log, g_hist>>

vars == <<o_vars, main_vars, gen_vars>>

\* ------------------------------------------------------------------------
\* Initial values of the objects main constructs
\* ------------------------------------------------------------------------
NoTier == 0
NoLimit == 0

\* Mutant: the constructor takes the statistics up from the previous
\* run's extraction_results.json
ExtractorStats_resumed ==
    IF t1_out.exists THEN t1_out.stats
    ELSE [commits_processed       |-> 0,
          files_checked           |-> 0,
          test_candidates_tried   |-> 0,
          test_files_found        |-> 0,
          test_methods_extracted  |-> 0,
          commits_with_zero_tests |-> 0,
          clone_failures          |-> 0]

\* self.stats of TestExtractionPipeline.__init__
ExtractorStats ==
    [commits_processed       |-> 0,
     files_checked           |-> 0,
     test_candidates_tried   |-> 0,
     test_files_found        |-> 0,
     test_methods_extracted  |-> 0,
     commits_with_zero_tests |-> 0,
     clone_failures          |-> 0]

\* No call of clone_repo was made yet
NoCalls == [p \in Projects |-> [calls |-> 0, runs |-> 0, rets |-> {}]]

\* TestExtractionPipeline.__init__
ExtractorInit ==
    /\ cloned = [p \in Projects |-> "unset"]
    /\ idx = 1
    /\ stats = ExtractorStats
    /\ all_results = <<>>
    /\ all_tests = <<>>
    /\ commits_without_tests = <<>>
    /\ clone_calls = NoCalls
    /\ show_log = <<>>

\* DoubleCheckExtraction.__init__
CheckerInit ==
    /\ t2_i = 0
    /\ t2_stats = [checked |-> 0, recovered |-> 0, methods_recovered |-> 0]
    /\ recovered_tests = <<>>
    /\ t2_log = <<>>

\* EvoSuiteTestGenerator.__init__ and RandoopTestGenerator.__init__
GeneratorStats ==
    [commits_attempted |-> 0,
     commits_cloned    |-> 0,
     commits_compiled  |-> 0,
     tests_generated   |-> 0,
     failures          |-> 0]

Tier3Init ==
    /\ commits_needing = <<>>
    /\ failed_commits = <<>>
    /\ e_i = 0
    /\ evo_stats = GeneratorStats
    /\ evo_results = <<>>
    /\ r_i = 0
    /\ rd_stats = GeneratorStats
    /\ rd_results = <<>>

\* The output files of Tier 1 before any run has written them
NotWritten ==
    [exists |-> FALSE, stats |-> <<>>, results |-> <<>>, tests |-> <<>>]

\* The first run of the program on an empty output directory
FirstRun ==
    /\ run_no = 1
    /\ start_repo = [p \in Projects |-> "absent"]
    /\ first = [tier |-> NoTier, limit |-> NoLimit,
                start_repo |-> [p \in Projects |-> "absent"],
                out |-> NotWritten, rets |-> [p \in Projects |-> {}]]
    /\ bare_repo = [p \in Projects |-> "absent"]
    /\ cwt_file = [exists |-> FALSE, data |-> <<>>]
    /\ t1_out = NotWritten

\* _find_test_candidates is not being followed
CandIdle ==
    /\ c_file = Path(<<>>, <<>>, "")
    /\ c_candidates = <<>>
    /\ c_pc = "idle"

\* extract_test_methods is not being followed
ExtractIdle ==
    /\ x_content = <<>>
    /\ x_tests = <<>>
    /\ x_pc = "idle"

\* No generator object is being followed stage by stage
GenIdle ==
    /\ g_tool = "none"
    /\ g_jar = FALSE
    /\ g_commits = <<>>
    /\ g_i = 0
    /\ g_pc = "idle"
    /\ g_stats = GeneratorStats
    /\ g_results = <<>>
    /\ g_repo = <<>>
    /\ g_out = <<>>
    /\ g_module = <<>>
    /\ g_classes = <<>>
    /\ g_k = 0
    /\ g_tests = 0
    /\ g_log = <<>>
    /\ g_hist = <<>>

\* ------------------------------------------------------------------------
\* Specification of the extractor as a pure function of the content
\* ------------------------------------------------------------------------
MainIdle ==
    /\ args_tier = NoTier
    /\ args_limit = NoLimit
    /\ dataset = <<>>
    /\ pc = "idle"
    /\ tier_results = {}
    /\ FirstRun
    /\ ExtractorInit
    /\ CheckerInit
    /\ Tier3Init

ExtractInit ==
    /\ x_content \in Contents
    /\ x_tests = <<>>
    /\ x_pc = "call"
    /\ CandIdle
    /\ MainIdle
    /\ GenIdle

ExtractCall ==
    /\ x_pc = "call"
    /\ x_tests' = extract_test_methods(x_content, "T.java")
    /\ x_pc' = "done"
    /\ UNCHANGED <<x_content, c_vars, run_vars, main_vars, gen_vars>>

ExtractNext == ExtractCall

SpecExtract == ExtractInit /\ [][ExtractNext]_vars

\* ------------------------------------------------------------------------
\* Specification of _find_test_candidates as a pure function of the path
\* ------------------------------------------------------------------------
\* The changed-file paths given to it: <module>/<source root>/<package>/
\* <base name><extension>, the module being empty for a file of the root
\* module ("src/main/java/org/x/Foo.java")
CandFiles ==
    LET modules  == { <<>>, <<"mod">>, <<"parent", "mod">> }
        roots    == { <<"src", "main", "java">>,
                      <<"src", "main", "resources">>, <<"src", "main">>,
                      <<"src", "test", "java">>, <<"lib">> }
        packages == { <<>>, <<"org", "x">> }
        bases    == { <<"Foo">>, <<"Foo", "Test">>, <<"Foo", "Tests">>,
                      <<"Foo", "IT">>, <<"Test", "Foo">> }
        exts     == { ".java", ".xml" }
    IN  { Path(m \o r \o k, b, x) :
            m \in modules, r \in roots, k \in packages, b \in bases,
            x \in exts }

CandInit ==
    /\ c_file \in CandFiles
    /\ c_candidates = <<>>
    /\ c_pc = "call"
    /\ ExtractIdle
    /\ MainIdle
    /\ GenIdle

CandCall ==
    /\ c_pc = "call"
    /\ c_candidates' = find_test_candidates(c_file)
    /\ c_pc' = "done"
    /\ UNCHANGED <<c_file, x_vars, run_vars, main_vars, gen_vars>>

CandNext == CandCall

SpecCandidates == CandInit /\ [][CandNext]_vars

\* ------------------------------------------------------------------------
\* TestExtractionPipeline.clone_repo
\* ------------------------------------------------------------------------
\* What "git clone --bare" can do: exit 0, exit non-zero, or raise (timeout)
CloneOutcomes == {"ok", "fail", "exc"}

\* Mutant: a failed clone is not remembered in _cloned
clone_repo_failure_not_cached(project, st, outcome, left) ==
    IF st.cloned[project] # "unset"
    THEN [st EXCEPT !.ret = st.cloned[project], !.ran = FALSE]
    ELSE IF st.bare_repo[project] # "absent"
    THEN [st EXCEPT !.cloned[project] = "dir", !.ret = "dir", !.ran = FALSE]
    ELSE IF outcome = "ok"
    THEN [st EXCEPT !.cloned[project] = "dir",
                    !.bare_repo[project] = "valid",
                    !.ret = "dir", !.ran = TRUE]
    ELSE [st EXCEPT !.clone_failures = @ + 1,
                    !.bare_repo[project] =
                        IF outcome = "exc" /\ left THEN "partial" ELSE @,
                    !.ret = "none", !.ran = TRUE]

\* clone_repo(project) on the state st = [cloned, bare_repo, clone_failures]
\* with the outcome of the clone, should one run.  left: whether a clone
\* that was killed leaves its directory behind.
clone_repo(project, st, outcome, left) ==
    IF st.cloned[project] # "unset"
    THEN [st EXCEPT !.ret = st.cloned[project], !.ran = FALSE]
    ELSE IF st.bare_repo[project] # "absent"
    THEN [st EXCEPT !.cloned[project] = "dir", !.ret = "dir", !.ran = FALSE]
    ELSE IF outcome = "ok"
    THEN [st EXCEPT !.cloned[project] = "dir",
                    !.bare_repo[project] = "valid",
                    !.ret = "dir", !.ran = TRUE]
    ELSE [st EXCEPT !.cloned[project] = "none",
                    !.clone_failures = @ + 1,
                    !.bare_repo[project] =
                        IF outcome = "exc" /\ left THEN "partial" ELSE @,
                    !.ret = "none", !.ran = TRUE]

\* A directory that a killed clone leaves behind is read by no later step of
\* the same run (the failure is cached in _cloned), only by a later run; the
\* run modelled by Spec does not record it.
LeftInRun == FALSE

CloneState ==
    [cloned |-> cloned, bare_repo |-> bare_repo,
     clone_failures |-> stats.clone_failures, ret |-> "unset", ran |-> FALSE]

\* The history of clone_repo calls after the call that gave cl
Called(project, cl) ==
    [clone_calls EXCEPT ![project] =
        [calls |-> @.calls + 1,
         runs  |-> @.runs + (IF cl.ran THEN 1 ELSE 0),
         rets  |-> @.rets \cup {cl.ret}]]

\* ------------------------------------------------------------------------
\* run_pipeline.main: start
\* ------------------------------------------------------------------------
NoRepeat(lines) ==
    \A i, j \in 1..Len(lines) :
        i # j /\ lines[i] = lines[j] => lines[i] = Malformed

MaxLines == 2
MaxLimit == 1

Datasets ==
    { d \in UNION { [1..n -> CommitRecords \cup {Malformed}] :
                      n \in 1..MaxLines } : NoRepeat(d) }

Init ==
    /\ ExtractIdle
    /\ CandIdle
    /\ args_tier \in {NoTier, 1, 2, 3, 4}
    /\ args_limit \in NoLimit..MaxLimit
    /\ dataset \in Datasets
    /\ pc = "tier1"
    /\ tier_results = {}
    /\ FirstRun
    /\ ExtractorInit
    /\ CheckerInit
    /\ Tier3Init
    /\ GenIdle

\* ------------------------------------------------------------------------
\* Tier 1: TestExtractionPipeline.process_dataset
\* ------------------------------------------------------------------------
\* "if args.tier in (None, 1)" is false: Tier 1 and Tier 2 are skipped
SkipTier1 ==
    /\ pc = "tier1"
    /\ args_tier \notin {NoTier, 1}
    /\ pc' = "tier3"
    /\ UNCHANGED <<o_vars, gen_vars, arg_vars, tier_results, disk_vars,
                   t1_vars, t2_vars, t3_vars>>

LimitReached == args_limit # NoLimit /\ idx > args_limit

\* Mutant: every commit is put on the list of commits without tests
ZeroTests_always(result) == TRUE

\* "if result["test_methods"] == 0"
ZeroTests(result) == result.test_methods = 0

\* One iteration of the loop over the dataset lines (340-363)
ProcessLine ==
    /\ pc = "tier1"
    /\ args_tier \in {NoTier, 1}
    /\ idx <= Len(dataset)
    /\ ~LimitReached
    /\ idx' = idx + 1
    /\ IF dataset[idx] = Malformed
       THEN UNCHANGED <<cloned, stats, all_results, all_tests,
                        commits_without_tests, bare_repo, clone_calls,
                        show_log>>
       ELSE \E outcome \in CloneOutcomes :
            LET cdata == dataset[idx]
                cl == clone_repo(cdata.project, CloneState, outcome,
                                 LeftInRun)
                acc == process_commit(cdata, cl.ret = "dir",
                           Readable(cl.bare_repo[cdata.project],
                                    cdata.commit_sha))
                result == acc.result
            IN  /\ cloned' = cl.cloned
                /\ bare_repo' = cl.bare_repo
                /\ clone_calls' = Called(cdata.project, cl)
                /\ show_log' = Append(show_log,
                                      [commit  |-> cdata,
                                       repo_ok |-> cl.ret = "dir",
                                       shown   |-> acc.shown])
                /\ all_results' = Append(all_results, result)
                /\ stats' = [stats EXCEPT
                      !.clone_failures = cl.clone_failures,
                      !.test_candidates_tried = @ + acc.tried,
                      !.test_files_found = @ + acc.found,
                      !.commits_processed = @ + 1,
                      !.files_checked = @ + result.files_checked,
                      !.test_methods_extracted = @ + result.test_methods,
                      !.commits_with_zero_tests =
                          IF ZeroTests(result) THEN @ + 1 ELSE @]
                /\ commits_without_tests' =
                      IF ZeroTests(result)
                      THEN Append(commits_without_tests,
                                  Commit(cdata.project, cdata.commit_sha,
                                         cdata.files))
                      ELSE commits_without_tests
                /\ all_tests' = all_tests \o result.extracted
    /\ UNCHANGED <<o_vars, gen_vars, arg_vars, pc, tier_results, cwt_file,
                   t1_out, t2_vars, t3_vars>>

\* json.dumps([{"project": ..., "commit_sha": ...} for c in ...])
RECURSIVE ProjectShaOnly(_)
ProjectShaOnly(commits) ==
    IF commits = <<>> THEN <<>>
    ELSE <<Commit(Head(commits).project, Head(commits).commit_sha, <<>>)>>
            \o ProjectShaOnly(Tail(commits))

\* The end of process_dataset (373-412) and main's lines 80-82
PersistTier1 ==
    /\ pc = "tier1"
    /\ args_tier \in {NoTier, 1}
    /\ idx > Len(dataset) \/ LimitReached
    /\ cwt_file' = [exists |-> TRUE,
                    data |-> ProjectShaOnly(commits_without_tests)]
    /\ t1_out' = [exists |-> TRUE, stats |-> stats,
                  results |-> all_results, tests |-> all_tests]
    /\ tier_results' = tier_results \cup {"tier1"}
    /\ pc' = IF args_tier \in {NoTier, 2} THEN "tier2" ELSE "tier3"
    /\ UNCHANGED <<o_vars, gen_vars, arg_vars, bare_repo, t1_vars, t2_vars,
                   t3_vars>>

\* ------------------------------------------------------------------------
\* Tier 2: DoubleCheckExtraction.check_commits
\* ------------------------------------------------------------------------
\* Mutant: recovered is counted once per recovered test
CountRecovered_per_test(n, acc) == n + Len(acc.tests)

\* "if found_any: self.stats["recovered"] += 1" (522-523)
CountRecovered(n, acc) == IF acc.found_any THEN n + 1 ELSE n

\* One iteration of the loop over commits_without_tests (460-523)
CheckCommit ==
    /\ pc = "tier2"
    /\ t2_i < Len(commits_without_tests)
    /\ t2_i' = t2_i + 1
    /\ t2_log' = Append(t2_log, commits_without_tests[t2_i + 1])
    /\ \E outcome \in CloneOutcomes :
       LET commit == commits_without_tests[t2_i + 1]
           cl == clone_repo(commit.project, CloneState, outcome, LeftInRun)
           prefixes == PrefixesOf(commit)
       IN  /\ cloned' = cl.cloned
           /\ bare_repo' = cl.bare_repo
           /\ clone_calls' = Called(commit.project, cl)
           /\ stats' = [stats EXCEPT !.clone_failures = cl.clone_failures]
           /\ IF cl.ret # "dir" \/ prefixes = {}
              THEN /\ t2_stats' = [t2_stats EXCEPT !.checked = @ + 1]
                   /\ UNCHANGED recovered_tests
              ELSE \E order \in Orders(prefixes) :
                   LET acc == PrefixLoop(order, commit.project,
                                 Readable(cl.bare_repo[commit.project],
                                          commit.commit_sha),
                                 TreeAcc0)
                   IN  /\ recovered_tests' = recovered_tests \o acc.tests
                       /\ t2_stats' = [t2_stats EXCEPT
                             !.checked = @ + 1,
                             !.methods_recovered = @ + Len(acc.tests),
                             !.recovered = CountRecovered(@, acc)]
    /\ UNCHANGED <<o_vars, gen_vars, arg_vars, pc, tier_results, cwt_file,
                   t1_out, idx, all_results, all_tests,
                   commits_without_tests, show_log, t3_vars>>

\* The end of check_commits (525-542) and main's line 86
PersistTier2 ==
    /\ pc = "tier2"
    /\ t2_i = Len(commits_without_tests)
    /\ tier_results' = tier_results \cup {"tier2"}
    /\ pc' = "tier3"
    /\ UNCHANGED <<o_vars, gen_vars, arg_vars, disk_vars, t1_vars, t2_vars,
                   t3_vars>>

\* ------------------------------------------------------------------------
\* Tier 3: generate_for_commit and process_commits (both generators)
\* ------------------------------------------------------------------------
MaxClasses == 2
\* The numbers of test files a generator run can report
GenCounts == {0, 1}

\* "src/main/java/" occurs in the path (fname.find(marker) >= 0)
MainJavaAt(path) ==
    { i \in 1..(Len(path.dirs) - 2) :
        SubSeq(path.dirs, i, i + 2) = SrcMainJava }

\* _extract_target_classes: one class name per changed file under
\* src/main/java/ that ends with .java
RECURSIVE extract_target_classes(_)
extract_target_classes(files) ==
    IF files = <<>> THEN <<>>
    ELSE LET f == Head(files)
             at == MainJavaAt(f)
         IN  (IF at # {} /\ f.ext = ".java"
              THEN LET i == CHOOSE k \in at : \A h \in at : k <= h
                   IN  << SubSeq(f.dirs, i + 3, Len(f.dirs)) \o f.base >>
              ELSE <<>>)
                \o extract_target_classes(Tail(files))

\* generate_for_commit (990-1039, 1504-1553) given what its callees return:
\* repo_ok: clone_and_checkout returned a directory; compiled: compile_project
\* returned (True, classpath); collected: the number of classes
\* collect_compiled_classes found; count: the return value of
\* generate_tests_evosuite / generate_tests_randoop.
generate_for_commit(commit, tool, st, repo_ok, compiled, collected, count) ==
    LET result == [project         |-> commit.project,
                   commit_sha      |-> commit.commit_sha,
                   tests_generated |-> 0,
                   tool            |-> tool,
                   status          |-> "failed"]
        failed(s) == [result |-> result,
                      stats  |-> [s EXCEPT !.failures = @ + 1]]
        st1 == [st EXCEPT !.commits_cloned = @ + 1]
        st2 == [st1 EXCEPT !.commits_compiled = @ + 1]
    IN  IF ~repo_ok THEN failed(st)
        ELSE IF ~compiled THEN failed(st1)
        ELSE IF extract_target_classes(commit.files) = <<>>
                /\ collected = 0
        THEN failed(st2)
        ELSE IF count > 0
        THEN [result |-> [result EXCEPT !.tests_generated = count,
                                        !.status = "success"],
              stats  |-> [st2 EXCEPT !.tests_generated = @ + count]]
        ELSE [result |-> [result EXCEPT !.status = "no_tests"],
              stats  |-> st2]

\* "if args.tier in (None, 3)" is false
SkipTier3 ==
    /\ pc = "tier3"
    /\ args_tier \notin {NoTier, 3}
    /\ pc' = "report"
    /\ UNCHANGED <<o_vars, gen_vars, arg_vars, tier_results, disk_vars,
                   t1_vars, t2_vars, t3_vars>>

\* commits_needing[:args.limit]
Truncate(commits) ==
    IF args_limit # NoLimit /\ args_limit < Len(commits)
    THEN SubSeq(commits, 1, args_limit)
    ELSE commits

\* main's lines 92-108: the input of Tier 3.  json.loads raises on a line
\* that is not valid JSON, which ends the process.
LoadTier3 ==
    /\ pc = "tier3"
    /\ args_tier \in {NoTier, 3}
    /\ IF cwt_file.exists /\ args_tier = NoTier
       THEN /\ commits_needing' = cwt_file.data
            /\ pc' = IF cwt_file.data # <<>> THEN "tier3a" ELSE "report"
       ELSE IF \E i \in 1..Len(dataset) : dataset[i] = Malformed
       THEN /\ pc' = "aborted"
            /\ UNCHANGED commits_needing
       ELSE /\ commits_needing' = Truncate(dataset)
            /\ pc' = IF Truncate(dataset) # <<>> THEN "tier3a" ELSE "report"
    /\ UNCHANGED <<o_vars, gen_vars, arg_vars, tier_results, disk_vars,
                   t1_vars, t2_vars, failed_commits, e_i, evo_stats,
                   evo_results, r_i, rd_stats, rd_results>>

\* Mutant: process_commits stops at the first commit that failed
MoreCommits_until_failure(i, commits, results) ==
    /\ i < Len(commits)
    /\ \A k \in 1..Len(results) : results[k].status # "failed"

\* "for idx, c in enumerate(commits, 1)" (1048, 1562) after i iterations
MoreCommits(i, commits, results) == i < Len(commits)

\* One iteration of EvoSuiteTestGenerator.process_commits (1048-1055)
EvoSuiteCommit ==
    /\ pc = "tier3a"
    /\ MoreCommits(e_i, commits_needing, evo_results)
    /\ e_i' = e_i + 1
    /\ \E repo_ok, compiled \in BOOLEAN, collected \in 0..MaxClasses,
          generated \in GenCounts :
       LET r == generate_for_commit(commits_needing[e_i + 1], "evosuite",
                   [evo_stats EXCEPT !.commits_attempted = @ + 1],
                   repo_ok, compiled, collected, generated)
       IN  /\ evo_stats' = r.stats
           /\ evo_results' = Append(evo_results, r.result)
    /\ UNCHANGED <<o_vars, gen_vars, arg_vars, pc, tier_results, disk_vars,
                   t1_vars, t2_vars, commits_needing, failed_commits, r_i,
                   rd_stats, rd_results>>

\* Mutant: the commits whose status is "no_tests" are collected
NeedsFallback_no_tests(result) == result.status = "no_tests"

\* Mutant: every commit is collected
NeedsFallback_all(result) == TRUE

\* "if result.get("tests_generated", 0) == 0"
NeedsFallback(result) == result.tests_generated = 0

\* The first commit of commits with the project and revision of result
\* (main's lines 117-121); <<>> when there is none
FirstMatching(commits, result) ==
    LET hits == { i \in 1..Len(commits) :
                    /\ commits[i].project = result.project
                    /\ commits[i].commit_sha = result.commit_sha }
    IN  IF hits = {} THEN <<>>
        ELSE << commits[CHOOSE i \in hits : \A j \in hits : i <= j] >>

\* main's lines 114-121
RECURSIVE CollectFailed(_, _)
CollectFailed(results, commits) ==
    IF results = <<>> THEN <<>>
    ELSE (IF NeedsFallback(Head(results))
          THEN FirstMatching(commits, Head(results))
          ELSE <<>>)
            \o CollectFailed(Tail(results), commits)

\* The end of EvoSuite process_commits (1057-1070), main's lines 112-123
PersistEvoSuite ==
    /\ pc = "tier3a"
    /\ ~MoreCommits(e_i, commits_needing, evo_results)
    /\ tier_results' = tier_results \cup {"tier3a"}
    /\ failed_commits' = CollectFailed(evo_results, commits_needing)
    /\ pc' = IF CollectFailed(evo_results, commits_needing) # <<>>
             THEN "tier3b" ELSE "report"
    /\ UNCHANGED <<o_vars, gen_vars, arg_vars, disk_vars, t1_vars, t2_vars,
                   commits_needing, e_i, evo_stats, evo_results, r_i,
                   rd_stats, rd_results>>

\* One iteration of RandoopTestGenerator.process_commits (1562-1569)
RandoopCommit ==
    /\ pc = "tier3b"
    /\ MoreCommits(r_i, failed_commits, rd_results)
    /\ r_i' = r_i + 1
    /\ \E repo_ok, compiled \in BOOLEAN, collected \in 0..MaxClasses,
          generated \in GenCounts :
       LET r == generate_for_commit(failed_commits[r_i + 1], "randoop",
                   [rd_stats EXCEPT !.commits_attempted = @ + 1],
                   repo_ok, compiled, collected, generated)
       IN  /\ rd_stats' = r.stats
           /\ rd_results' = Append(rd_results, r.result)
    /\ UNCHANGED <<o_vars, gen_vars, arg_vars, pc, tier_results, disk_vars,
                   t1_vars, t2_vars, commits_needing, failed_commits, e_i,
                   evo_stats, evo_results>>

\* The end of Randoop process_commits (1571-1584), main's line 129
PersistRandoop ==
    /\ pc = "tier3b"
    /\ ~MoreCommits(r_i, failed_commits, rd_results)
    /\ tier_results' = tier_results \cup {"tier3b"}
    /\ pc' = "report"
    /\ UNCHANGED <<o_vars, gen_vars, arg_vars, disk_vars, t1_vars, t2_vars,
                   t3_vars>>

\* main's lines 134-138: Tier 4 only logs; _report writes the summary
Report ==
    /\ pc = "report"
    /\ pc' = "done"
    /\ UNCHANGED <<o_vars, gen_vars, arg_vars, tier_results, disk_vars,
                   t1_vars, t2_vars, t3_vars>>

Next ==
    \/ SkipTier1
    \/ ProcessLine
    \/ PersistTier1
    \/ CheckCommit
    \/ PersistTier2
    \/ SkipTier3
    \/ LoadTier3
    \/ EvoSuiteCommit
    \/ PersistEvoSuite
    \/ RandoopCommit
    \/ PersistRandoop
    \/ Report

Spec == Init /\ [][Next]_vars

\* ------------------------------------------------------------------------
\* The pipeline on one commit that changes files of several packages, at a
\* revision whose tests are not named after the changed classes
\* ------------------------------------------------------------------------
TreeCommits ==
    { Commit("p", "d4", fs) :
        fs \in { f \in UNION { [1..n -> {F_main, F_sub, F_other}] :
                                 n \in 1..3 } :
                    \A i, j \in 1..Len(f) : i # j => f[i] # f[j] } }

TreeInit ==
    /\ ExtractIdle
    /\ CandIdle
    /\ args_tier \in {NoTier, 1, 2, 3, 4}
    /\ args_limit \in NoLimit..MaxLimit
    /\ dataset \in { <<c>> : c \in TreeCommits }
    /\ pc = "tier1"
    /\ tier_results = {}
    /\ FirstRun
    /\ ExtractorInit
    /\ CheckerInit
    /\ Tier3Init
    /\ GenIdle

SpecTree == TreeInit /\ [][Next]_vars

\* ------------------------------------------------------------------------
\* Two runs of run_pipeline.py, one after the other, with the same dataset
\* and output directory
\* ------------------------------------------------------------------------
\* The datasets followed over two runs
RerunDatasets ==
    { <<c>> : c \in CommitRecords \cup {Malformed} }
        \cup { << Commit("p", "a1", <<F_main>>),
                  Commit("p", "b2", <<F_main>>) >>,
               << Commit("q", "c3", <<F_main, F_test>>),
                  Commit("p", "a1", <<F_main>>) >> }

\* The first run: the repository cache may hold bare clones already
RerunInit ==
    /\ ExtractIdle
    /\ CandIdle
    /\ args_tier \in {NoTier, 1, 2, 3, 4}
    /\ args_limit = NoLimit
    /\ dataset \in RerunDatasets
    /\ pc = "tier1"
    /\ tier_results = {}
    /\ run_no = 1
    /\ bare_repo \in [Projects -> {"absent", "valid"}]
    /\ start_repo = bare_repo
    /\ first = [tier |-> NoTier, limit |-> NoLimit,
                start_repo |-> [p \in Projects |-> "absent"],
                out |-> NotWritten, rets |-> [p \in Projects |-> {}]]
    /\ cwt_file = [exists |-> FALSE, data |-> <<>>]
    /\ t1_out = NotWritten
    /\ ExtractorInit
    /\ CheckerInit
    /\ Tier3Init
    /\ GenIdle

\* The repository cache as the next run can find it.  subprocess.run kills
\* a clone that reaches its timeout, and a killed git clone cannot remove
\* the directory it was writing.  No step of the run that made it looks at
\* the directory again (the failure is cached in _cloned), so whether a
\* failed clone of this run was such a one is decided here.
LeftBehind ==
    { b \in [Projects -> {"absent", "valid", "partial"}] :
        \A p \in Projects :
            \/ b[p] = bare_repo[p]
            \/ /\ b[p] = "partial"
               /\ bare_repo[p] = "absent"
               /\ cloned[p] = "none"
               /\ clone_calls[p].runs = 1 }

\* The process has ended and the program is started again: main constructs
\* its objects anew; the files on disk stay
Restart ==
    /\ pc \in {"done", "aborted"}
    /\ run_no = 1
    /\ run_no' = 2
    /\ first' = [tier |-> args_tier, limit |-> args_limit,
                 start_repo |-> start_repo,
                 out |-> IF "tier1" \in tier_results THEN t1_out
                         ELSE NotWritten,
                 rets |-> [p \in Projects |-> clone_calls[p].rets]]
    /\ bare_repo' \in LeftBehind
    /\ start_repo' = bare_repo'
    /\ args_tier' \in {NoTier, 1, 2, 3, 4}
    /\ pc' = "tier1"
    /\ tier_results' = {}
    /\ UNCHANGED <<x_vars, c_vars, gen_vars, args_limit, dataset, cwt_file,
                   t1_out>>
    \* TestExtractionPipeline.__init__
    /\ cloned' = [p \in Projects |-> "unset"]
    /\ idx' = 1
    /\ stats' = ExtractorStats
    /\ all_results' = <<>>
    /\ all_tests' = <<>>
    /\ commits_without_tests' = <<>>
    /\ clone_calls' = NoCalls
    /\ show_log' = <<>>
    \* DoubleCheckExtraction.__init__
    /\ t2_i' = 0
    /\ t2_stats' = [checked |-> 0, recovered |-> 0, methods_recovered |-> 0]
    /\ recovered_tests' = <<>>
    /\ t2_log' = <<>>
    \* main's locals and the generators' __init__
    /\ commits_needing' = <<>>
    /\ failed_commits' = <<>>
    /\ e_i' = 0
    /\ evo_stats' = GeneratorStats
    /\ evo_results' = <<>>
    /\ r_i' = 0
    /\ rd_stats' = GeneratorStats
    /\ rd_results' = <<>>

RerunNext == Next \/ Restart

SpecRerun == RerunInit /\ [][RerunNext]_vars

\* ------------------------------------------------------------------------
\* One Tier 3 generator, stage by stage: process_commits, generate_for_commit
\* and what they call (EvoSuiteTestGenerator and RandoopTestGenerator, whose
\* clone_and_checkout, compile_project, _extract_target_classes and
\* generate_for_commit are the same code)
\* ------------------------------------------------------------------------
\* mod/src/main/java/org/x/Bar.java
F_bar == Path(ModMainDirs, <<"Bar">>, ".java")

\* Commits given to a generator: one changed class in module mod; a commit
\* as read back from commits_without_tests.json (no file list); two changed
\* classes; one changed class of the root module
GenA == Commit("p", "a1", <<F_main>>)
GenB == Commit("p", "b2", <<>>)
GenC == Commit("q", "c3", <<F_main, F_bar>>)
GenD == Commit("q", "d4", <<F_root>>)
\* lib/src/main/java/org/x/Bar.java
F_lib == Path(<<"lib", "src", "main", "java", "org", "x">>, <<"Bar">>, ".java")
\* A commit with changed classes in the two modules mod and lib
GenE == Commit("q", "e5", <<F_main, F_lib>>)
GenCommitRecords == {GenA, GenB, GenC, GenD, GenE}
GenInputs == { <<GenA>>, <<GenB>>, <<GenC>>, <<GenD>>, <<GenE>>,
               <<GenA, GenB>>, <<GenB, GenA>> }
GenKeys == { <<c.project, c.commit_sha>> : c \in GenCommitRecords }

\* <output_dir>/repos/<project> does not exist
Absent == [exists |-> FALSE, head |-> "none", target |-> FALSE]

\* An entry of the history of external calls
Ev(name, outcome) ==
    [ev |-> name, k |-> 0, exit |-> outcome, sig |-> FALSE, wrote |-> 0,
     files |-> 0]

\* The state of generate_for_commit's locals before a commit
GenLocalsReset ==
    /\ g_module' = <<>>
    /\ g_classes' = <<>>
    /\ g_k' = 0
    /\ g_tests' = 0

GenInit ==
    /\ ExtractIdle
    /\ CandIdle
    /\ MainIdle
    /\ g_tool \in {"evosuite", "randoop"}
    /\ g_jar \in BOOLEAN
    /\ g_commits \in GenInputs
    /\ g_i = 0
    /\ g_pc = "construct"
    /\ g_stats = GeneratorStats
    /\ g_results = <<>>
    /\ g_repo = [p \in Projects |-> Absent]
    /\ \E stale \in {0, 1} : g_out = [key \in GenKeys |-> stale]
    /\ g_module = <<>>
    /\ g_classes = <<>>
    /\ g_k = 0
    /\ g_tests = 0
    /\ g_log = <<>>
    /\ g_hist = <<>>

\* The constructors (553-565, 1077-1089): _ensure_evosuite only looks for
\* the jar on disk; _ensure_randoop (1092-1105) starts a download when the
\* jar is not there.
Construct ==
    /\ g_pc = "construct"
    /\ g_pc' = IF g_tool = "randoop" /\ ~g_jar THEN "download" ELSE "loop"
    /\ UNCHANGED <<o_vars, main_vars, g_tool, g_jar, g_commits, g_i,
                   g_stats, g_results, g_repo, g_out, g_module, g_classes,
                   g_k, g_tests, g_log, g_hist>>

\* urllib.request.urlretrieve(url, str(jar)) at 1101 returns or raises; the
\* exception is caught at 1103. The call is given no timeout, so nothing
\* makes this step happen. After an exception the file may be there in
\* part or not at all.
Download ==
    /\ g_pc = "download"
    /\ g_jar' \in BOOLEAN
    /\ g_pc' = "loop"
    /\ UNCHANGED <<o_vars, main_vars, g_tool, g_commits, g_i, g_stats,
                   g_results, g_repo, g_out, g_module, g_classes, g_k,
                   g_tests, g_log, g_hist>>

\* The commit generate_for_commit is working on
GenCommit == g_commits[g_i]

\* The head of one iteration of process_commits (1048-1054, 1562-1568)
StartCommit ==
    /\ g_pc = "loop"
    /\ g_i < Len(g_commits)
    /\ g_i' = g_i + 1
    /\ g_stats' = [g_stats EXCEPT !.commits_attempted = @ + 1]
    /\ g_log' = <<>>
    /\ g_pc' = "checkout"
    /\ GenLocalsReset
    /\ UNCHANGED <<o_vars, main_vars, g_tool, g_jar, g_commits, g_results,
                   g_repo, g_out, g_hist>>

\* What the clone_and_checkout call of the history log did about git clone:
\* "none" when the directory on disk was reused, "failed" when git clone
\* exited non-zero, "ran" when it ran otherwise
CloneOf(log) ==
    IF log = <<>> \/ ~log[1].cloned THEN "none"
    ELSE IF log[1].clone_failed THEN "failed"
    ELSE "ran"

\* Mutant: a failed commit is not counted in failures
ReturnFailed_uncounted(stage, log) ==
    /\ g_stats' = g_stats
    /\ g_results' = Append(g_results,
                           [project         |-> GenCommit.project,
                            commit_sha      |-> GenCommit.commit_sha,
                            tests_generated |-> 0,
                            tool            |-> g_tool,
                            status          |-> "failed"])
    /\ g_hist' = Append(g_hist, [ended |-> stage, returned |-> 0,
                                  clone |-> CloneOf(log)])
    /\ g_pc' = "loop"

\* generate_for_commit returns result with status "failed" (1003-1005,
\* 1010-1012, 1023-1025) and process_commits appends it; log is the
\* history of the commit's external calls
ReturnFailed(stage, log) ==
    /\ g_stats' = [g_stats EXCEPT !.failures = @ + 1]
    /\ g_results' = Append(g_results,
                           [project         |-> GenCommit.project,
                            commit_sha      |-> GenCommit.commit_sha,
                            tests_generated |-> 0,
                            tool            |-> g_tool,
                            status          |-> "failed"])
    /\ g_hist' = Append(g_hist, [ended |-> stage, returned |-> 0,
                                  clone |-> CloneOf(log)])
    /\ g_pc' = "loop"

\* shutil.rmtree(repo_dir, ignore_errors=True): gone tells whether the
\* directory could be removed
rmtree(repo, gone) == IF gone THEN Absent ELSE repo

\* Mutant: a fresh clone whose HEAD does not match is returned all the same
FreshReturns_mismatch_accepted(fresh) ==
    fresh \in {"unverified", "verified", "mismatch"}

\* The outcomes of the fresh-clone path on which repo_dir is returned
\* (679-695): HEAD read back and matching, or rev-parse exiting non-zero
FreshReturns(fresh) == fresh \in {"unverified", "verified"}

\* clone_and_checkout (624-706, 1164-1246) on the working tree repo, given
\* the outcomes o of the commands it runs:
\*   o.reuse   "verified": rev-parse exits 0 and prints the revision;
\*             "mismatch": it does not; "raise": a command raised
\*   o.cleaned whether git clean removed the build output
\*   o.fresh   "clone_fail", "checkout_fail", "mismatch", "timeout",
\*             "unverified" (rev-parse exits non-zero) or "verified"
\*   o.head    the revision checked out when it was not verified
\*   o.gone1, o.gone2  whether the first and second rmtree removed the tree
\* The result tells what was returned (ret), the directory afterwards
\* (repo), whether git clone was run (cloned), whether the existing copy
\* failed its verification (reuse_failed) and was then removed (removed),
\* and what the last rev-parse of the call gave (readback: "match",
\* "mismatch", "error" for a non-zero exit, "none" when none completed).
clone_and_checkout(repo, sha, o) ==
    LET reused == [repo EXCEPT
                     !.target = IF o.cleaned THEN FALSE ELSE @,
                     !.head = IF o.reuse = "verified" THEN sha ELSE "other"]
        base == IF repo.exists THEN rmtree(reused, o.gone1) ELSE repo
        \* git clone fails on a destination that exists and is not empty
        fresh == IF base.exists THEN "clone_fail" ELSE o.fresh
        clone(h) == [exists |-> TRUE, head |-> h, target |-> FALSE]
        head == CASE fresh = "verified" -> sha
                  [] fresh = "unverified" -> o.head
                  [] OTHER -> "other"
        readback == CASE fresh = "verified" -> "match"
                      [] fresh = "mismatch" -> "mismatch"
                      [] fresh = "unverified" -> "error"
                      [] OTHER -> IF repo.exists /\ o.reuse = "mismatch"
                                  THEN "mismatch" ELSE "none"
        call == [ret |-> FALSE, repo |-> repo, cloned |-> TRUE,
                 clone_failed |-> fresh = "clone_fail",
                 reuse_failed |-> repo.exists,
                 removed |-> repo.exists /\ ~base.exists,
                 readback |-> readback]
    IN  IF repo.exists /\ o.reuse = "verified"
        THEN [ret |-> TRUE, repo |-> reused, cloned |-> FALSE,
              clone_failed |-> FALSE,
              reuse_failed |-> FALSE, removed |-> FALSE,
              readback |-> "match"]
        ELSE IF fresh = "clone_fail"
        THEN [call EXCEPT !.repo = rmtree(base, o.gone2)]
        ELSE IF FreshReturns(fresh)
        THEN [call EXCEPT !.ret = TRUE, !.repo = clone(head)]
        ELSE [call EXCEPT !.repo = rmtree(clone("other"), o.gone2)]

CheckoutOutcomes(sha) ==
    [reuse   : {"verified", "mismatch", "raise"},
     cleaned : BOOLEAN,
     fresh   : {"clone_fail", "checkout_fail", "mismatch", "timeout",
                "unverified", "verified"},
     head    : {sha, "other"},
     gone1   : BOOLEAN,
     gone2   : BOOLEAN]

\* The history entry of a clone_and_checkout call with result r
CheckoutEv(r) ==
    [ev |-> "checkout", k |-> 0, exit |-> IF r.ret THEN "ok" ELSE "failed",
     sig |-> FALSE, wrote |-> 0, files |-> 0, cloned |-> r.cloned,
     clone_failed |-> r.clone_failed, reuse_failed |-> r.reuse_failed,
     removed |-> r.removed, readback |-> r.readback]

\* generate_for_commit, 1001-1006: the checkout stage
Checkout ==
    /\ g_pc = "checkout"
    /\ \E o \in CheckoutOutcomes(GenCommit.commit_sha) :
       LET r == clone_and_checkout(g_repo[GenCommit.project],
                                   GenCommit.commit_sha, o)
       IN  /\ g_repo' = [g_repo EXCEPT ![GenCommit.project] = r.repo]
           /\ g_log' = Append(g_log, CheckoutEv(r))
           /\ IF r.ret
              THEN /\ g_stats' = [g_stats EXCEPT !.commits_cloned = @ + 1]
                   /\ g_pc' = "compile"
                   /\ UNCHANGED <<g_results, g_hist>>
              ELSE ReturnFailed("checkout",
                                Append(g_log, CheckoutEv(r)))
    /\ UNCHANGED <<o_vars, main_vars, g_tool, g_jar, g_commits, g_i, g_out,
                   g_module, g_classes, g_k, g_tests>>

\* ------------------------------------------------------------------------
\* compile_project (766-906, 1290-1415)
\* ------------------------------------------------------------------------
SrcTestJava == <<"src", "test", "java">>
SrcMainResources == <<"src", "main", "resources">>

\* fname.find(marker) + 1 for a marker made of whole path segments;
\* 0 when the marker does not occur
FirstAt(path, segs) ==
    LET at == { i \in 1..(Len(path.dirs) - Len(segs) + 1) :
                  SubSeq(path.dirs, i, i + Len(segs) - 1) = segs }
    IN  IF at = {} THEN 0 ELSE CHOOSE i \in at : \A j \in at : i <= j

\* The inner loop of _extract_module_from_files over the markers (729-735):
\* the directories before the first marker found at an index > 0
RECURSIVE ModuleOf(_, _)
ModuleOf(path, markers) ==
    IF markers = <<>> THEN <<>>
    ELSE IF FirstAt(path, Head(markers)) >= 2
    THEN SubSeq(path.dirs, 1, FirstAt(path, Head(markers)) - 1)
    ELSE ModuleOf(path, Tail(markers))

\* The markers of _extract_module_from_files, in its order
ModuleMarkers == <<SrcMainJava, SrcTestJava, SrcMainResources>>

\* len() of a path segment
StrLen(seg) ==
    CASE seg \in {"x"} -> 1
      [] seg \in {"mod", "lib", "src", "org"} -> 3
      [] seg \in {"main", "java", "test"} -> 4
      [] OTHER -> 9

\* len() of the segments joined by "/"
RECURSIVE PathStrLen(_)
PathStrLen(dirs) ==
    IF dirs = <<>> THEN 0
    ELSE StrLen(Head(dirs)) + (IF Len(dirs) > 1 THEN 1 ELSE 0)
            + PathStrLen(Tail(dirs))

\* _extract_module_from_files: the values min(modules, key=len) can take
\* (among modules of the same length, the first in the set's iteration
\* order); {<<>>} stands for None
extract_module_from_files(files) ==
    LET modules == { ModuleOf(files[i], ModuleMarkers) :
                       i \in 1..Len(files) } \ {<<>>}
    IN  IF modules = {} THEN {<<>>}
        ELSE { m \in modules :
                 \A n \in modules : PathStrLen(m) <= PathStrLen(n) }

\* The stages of compile_project keep everything but these unchanged
CompileFrame ==
    UNCHANGED <<o_vars, main_vars, g_tool, g_jar, g_commits, g_i, g_out,
                g_classes, g_k, g_tests>>

\* 772-824: the root pom, the target module, the root install and the
\* pre-installs of build tooling.  A timeout of one of them raises
\* TimeoutExpired, caught at 901.
CompilePrepare ==
    /\ g_pc = "compile"
    /\ \E has_pom \in BOOLEAN,
          module \in extract_module_from_files(GenCommit.files),
          root \in {"done", "timeout"} :
       \E tooling \in IF module = <<>> THEN {"none"}
                      ELSE {"none", "done", "timeout"} :
          LET calls == IF ~has_pom THEN <<>>
                       ELSE <<Ev("root_install", root)>> \o
                            (IF root = "done" /\ tooling # "none"
                             THEN <<Ev("tooling_install", tooling)>>
                             ELSE <<>>)
          IN  /\ g_log' = g_log \o calls
              /\ IF has_pom /\ root = "done" /\ tooling # "timeout"
                 THEN /\ g_module' = module
                      /\ g_pc' = "compile_main"
                      /\ UNCHANGED <<g_stats, g_results, g_hist>>
                 ELSE /\ ReturnFailed("build", g_log)
                      /\ UNCHANGED g_module
    /\ UNCHANGED g_repo
    /\ CompileFrame

\* Mutant: the build is taken to have produced output directories
ClassesDirsFound_always(repo) == TRUE

\* "classes_dirs" is not empty (849-851, 860-862)
ClassesDirsFound(repo) == repo.target

\* The outcome of a build as the history records it
BuildOutcome(out, repo) ==
    IF out = "timeout" THEN "timeout"
    ELSE IF repo.target THEN "found" ELSE "none"

\* What a build leaves on disk: target/classes directories exist under the
\* searched directory if they did before or the build produced some
Built(repo, produced) == [repo EXCEPT !.target = @ \/ produced]

\* 826-851 and 862-869: the main goal, scoped to the module (-pl <module>
\* -am) when the module has a pom.xml, and the search for target/classes
CompileMain ==
    /\ g_pc = "compile_main"
    /\ \E module_pom \in IF g_module = <<>> THEN {FALSE} ELSE BOOLEAN,
          out \in {"done", "timeout"}, produced \in BOOLEAN :
       LET repo == Built(g_repo[GenCommit.project], produced)
       IN  /\ g_repo' = [g_repo EXCEPT ![GenCommit.project] = repo]
           /\ g_log' = Append(g_log,
                 Ev(IF module_pom THEN "build_scoped" ELSE "build_full",
                    BuildOutcome(out, repo)))
           /\ IF out = "done" /\ ClassesDirsFound(repo)
              THEN /\ g_pc' = "compile_cp"
                   /\ UNCHANGED <<g_stats, g_results, g_hist>>
              ELSE IF out = "done" /\ g_module # <<>>
              THEN /\ g_pc' = "compile_fallback"
                   /\ UNCHANGED <<g_stats, g_results, g_hist>>
              ELSE ReturnFailed("build", g_log)
    /\ UNCHANGED g_module
    /\ CompileFrame

\* 851-869: the full-project install, run when a target module is set and
\* no target/classes directory was found
CompileFallback ==
    /\ g_pc = "compile_fallback"
    /\ \E out \in {"done", "timeout"}, produced \in BOOLEAN :
       LET repo == Built(g_repo[GenCommit.project], produced)
       IN  /\ g_repo' = [g_repo EXCEPT ![GenCommit.project] = repo]
           /\ g_log' = Append(g_log,
                 Ev("build_fallback", BuildOutcome(out, repo)))
           /\ IF out = "done" /\ ClassesDirsFound(repo)
              THEN /\ g_pc' = "compile_cp"
                   /\ UNCHANGED <<g_stats, g_results, g_hist>>
              ELSE ReturnFailed("build", g_log)
    /\ UNCHANGED g_module
    /\ CompileFrame

\* 871-899 and generate_for_commit 1008-1013: the classpath.  cp is "none"
\* when the searched directory has no pom.xml; a timeout of
\* dependency:build-classpath is caught at 901 and fails the build.
CompileClasspath ==
    /\ g_pc = "compile_cp"
    /\ \E cp \in {"none", "ok", "fail", "timeout"} :
          /\ g_log' = IF cp = "none" THEN g_log
                      ELSE Append(g_log, Ev("classpath", cp))
          /\ IF cp # "timeout"
             THEN /\ g_stats' = [g_stats EXCEPT !.commits_compiled = @ + 1]
                  /\ g_pc' = "select"
                  /\ UNCHANGED <<g_results, g_hist>>
             ELSE ReturnFailed("build", g_log)
    /\ UNCHANGED <<g_repo, g_module>>
    /\ CompileFrame

\* ------------------------------------------------------------------------
\* Class selection and generation
\* ------------------------------------------------------------------------
\* Names collect_compiled_classes can return, in the order of its scan
CompiledNames ==
    << <<"org", "x", "Foo">>, <<"org", "x", "Bar">>, <<"org", "x", "Baz">>,
       <<"org", "x", "Qux">> >>

\* The key of the commit's output directory <project>_<sha[:8]>_tests
OutKey == <<GenCommit.project, GenCommit.commit_sha>>

\* generate_for_commit 1015-1028: the classes named by the changed files,
\* or else the compiled classes; no class at all fails the commit
SelectClasses ==
    /\ g_pc = "select"
    /\ \E collected \in 0..MaxClasses :
       LET target_classes == extract_target_classes(GenCommit.files)
           classes == IF target_classes # <<>> THEN target_classes
                      ELSE SubSeq(CompiledNames, 1, collected)
       IN  /\ g_log' = Append(g_log, Ev("select", "ok"))
           /\ IF classes # <<>>
              THEN /\ g_classes' = classes
                   /\ g_pc' = "generate"
                   /\ UNCHANGED <<g_stats, g_results, g_hist>>
              ELSE /\ ReturnFailed("select", g_log)
                   /\ UNCHANGED g_classes
    /\ UNCHANGED <<o_vars, main_vars, g_tool, g_jar, g_commits, g_i, g_repo,
                   g_out, g_module, g_k, g_tests>>

\* generate_tests_evosuite 934-936 and generate_tests_randoop 1443-1445:
\* without the tool's JAR nothing is run and 0 is returned
MissingJar ==
    /\ g_pc = "generate"
    /\ ~g_jar
    /\ g_tests' = 0
    /\ g_pc' = "return"
    /\ UNCHANGED <<o_vars, main_vars, g_tool, g_jar, g_commits, g_i,
                   g_stats, g_results, g_repo, g_out, g_module, g_classes,
                   g_k, g_log, g_hist>>

\* What one run of the tool can do: its exit ("timeout" when it was killed
\* after 120 s), whether the output subprocess.run returns holds "Fatal
\* crash" or "NullPointerException" (a killed run returns none), and how
\* many test files it wrote
ToolRuns ==
    { run \in [exit : {"zero", "nonzero", "timeout"}, sig : BOOLEAN,
               wrote : {0, 1}] : run.exit = "timeout" => ~run.sig }

\* Mutant: a crash does not end the loop
CrashStops_never(run) == FALSE

\* 963-967: a non-zero exit whose output holds a crash signature
CrashStops(run) == run.exit = "nonzero" /\ run.sig

\* Mutant: generated test files do not end the loop
SuccessStops_never(run, files) == FALSE

\* 957-962: exit code 0 and at least one *_ESTest.java under out_dir
SuccessStops(run, files) == run.exit = "zero" /\ files > 0

\* One iteration of the loop of generate_tests_evosuite (941-972)
EvoSuiteClass ==
    /\ g_pc = "generate"
    /\ g_tool = "evosuite"
    /\ g_jar
    /\ g_k < Len(g_classes)
    /\ \E run \in ToolRuns :
       LET files == g_out[OutKey] + run.wrote
       IN  /\ g_k' = g_k + 1
           /\ g_out' = [g_out EXCEPT ![OutKey] = files]
           /\ g_log' = Append(g_log,
                 [ev |-> "generate", k |-> g_k + 1, exit |-> run.exit,
                  sig |-> run.sig, wrote |-> run.wrote, files |-> files])
           /\ g_tests' = IF SuccessStops(run, files) THEN files ELSE g_tests
           /\ g_pc' = IF \/ SuccessStops(run, files)
                         \/ CrashStops(run)
                         \/ g_k + 1 = Len(g_classes)
                      THEN "return" ELSE "generate"
    /\ UNCHANGED <<o_vars, main_vars, g_tool, g_jar, g_commits, g_i,
                   g_stats, g_results, g_repo, g_module, g_classes, g_hist>>

\* generate_tests_randoop 1449-1488: one run for the whole class list.
\* written: whether classlist.txt could be written (if not, the exception
\* is caught and 0 returned without a run).
RandoopRun ==
    /\ g_pc = "generate"
    /\ g_tool = "randoop"
    /\ g_jar
    /\ \E written \in BOOLEAN, run \in ToolRuns :
       LET files == g_out[OutKey] + run.wrote
       IN  IF written
           THEN /\ g_out' = [g_out EXCEPT ![OutKey] = files]
                /\ g_log' = Append(g_log,
                      [ev |-> "generate", k |-> 1, exit |-> run.exit,
                       sig |-> run.sig, wrote |-> run.wrote,
                       files |-> files])
                /\ g_tests' = IF run.exit = "timeout" THEN 0 ELSE files
           ELSE /\ g_tests' = 0
                /\ UNCHANGED <<g_out, g_log>>
    /\ g_pc' = "return"
    /\ UNCHANGED <<o_vars, main_vars, g_tool, g_jar, g_commits, g_i,
                   g_stats, g_results, g_repo, g_module, g_classes, g_k,
                   g_hist>>

\* Mutant: a commit without generated tests is reported as failed
StatusOf_failed(tests_generated) ==
    IF tests_generated > 0 THEN "success" ELSE "failed"

\* 1032-1037, 1546-1551
StatusOf(tests_generated) ==
    IF tests_generated > 0 THEN "success" ELSE "no_tests"

\* generate_for_commit 1030-1039 and process_commits 1055
ReturnResult ==
    /\ g_pc = "return"
    /\ g_stats' = [g_stats EXCEPT !.tests_generated = @ + g_tests]
    /\ g_results' = Append(g_results,
                           [project         |-> GenCommit.project,
                            commit_sha      |-> GenCommit.commit_sha,
                            tests_generated |-> g_tests,
                            tool            |-> g_tool,
                            status          |-> StatusOf(g_tests)])
    /\ g_hist' = Append(g_hist, [ended |-> "generate", returned |-> g_tests,
                                  clone |-> CloneOf(g_log)])
    /\ g_pc' = "loop"
    /\ UNCHANGED <<o_vars, main_vars, g_tool, g_jar, g_commits, g_i, g_repo,
                   g_out, g_module, g_classes, g_k, g_tests, g_log>>

\* The end of process_commits (1057-1070, 1571-1584)
SaveResults ==
    /\ g_pc = "loop"
    /\ g_i = Len(g_commits)
    /\ g_pc' = "done"
    /\ UNCHANGED <<o_vars, main_vars, g_tool, g_jar, g_commits, g_i,
                   g_stats, g_results, g_repo, g_out, g_module, g_classes,
                   g_k, g_tests, g_log, g_hist>>

GenNext ==
    \/ Construct
    \/ Download
    \/ StartCommit
    \/ Checkout
    \/ CompilePrepare
    \/ CompileMain
    \/ CompileFallback
    \/ CompileClasspath
    \/ SelectClasses
    \/ MissingJar
    \/ EvoSuiteClass
    \/ RandoopRun
    \/ ReturnResult
    \/ SaveResults

SpecGen == GenInit /\ [][GenNext]_vars

\* ------------------------------------------------------------------------
\* Claims about the extractor
\* ------------------------------------------------------------------------
\* The matches in scan order: every pat4 match by position, then (only when
\* the content has "extends TestCase") every pat3 match by position.
Pat4Positions(content) == {i \in 1..Len(content) : pat4(content[i])}
Pat3Positions(content) ==
    IF HasExtendsTestCase(content)
    THEN {i \in 1..Len(content) : pat3(content[i])}
    ELSE {}

\* <<legacy, i>> precedes <<legacy2, j>> in scan order
ScanBefore(m1, m2) ==
    \/ ~m1[1] /\ m2[1]
    \/ m1[1] = m2[1] /\ m1[2] < m2[2]

Matches(content) ==
    {<<FALSE, i>> : i \in Pat4Positions(content)}
        \cup {<<TRUE, i>> : i \in Pat3Positions(content)}

FirstMatch(content, name) ==
    CHOOSE m \in Matches(content) :
        /\ content[m[2]].n = name
        /\ \A m2 \in Matches(content) :
              content[m2[2]].n = name /\ m2 # m => ScanBefore(m, m2)

\* Brace depth after the tokens b+1..j of content, starting at 1 after the
\* opening brace at b.
RECURSIVE DepthAfter(_, _, _)
DepthAfter(content, b, j) ==
    IF j <= b THEN 1
    ELSE DepthAfter(content, b, j - 1) + Opens(content[j]) - Closes(content[j])

\* The position of the brace that closes the one at b: the first position
\* where the depth is back to zero (0 if there is none).
ClosingPos(content, b) ==
    IF \E j \in (b + 1)..Len(content) : DepthAfter(content, b, j) = 0
    THEN CHOOSE j \in (b + 1)..Len(content) :
             /\ DepthAfter(content, b, j) = 0
             /\ \A h \in (b + 1)..(j - 1) : DepthAfter(content, b, h) # 0
    ELSE 0

\* C9: extract_test_methods returns no two tests with the same method name
\* (across the annotation pattern and the legacy pattern), and a test that
\* is kept for a name comes from the first match of that name in scan order
\* (all annotation matches by position, then all legacy matches).
C9_UniqueNamesFirstWins ==
    x_pc = "done" =>
        /\ \A i, j \in 1..Len(x_tests) :
              i # j => x_tests[i].method_name # x_tests[j].method_name
        /\ \A i \in 1..Len(x_tests) :
              LET m == FirstMatch(x_content, x_tests[i].method_name)
              IN  /\ x_tests[i].annotation
                        = (IF m[1] THEN "extends TestCase" ELSE "@Test")
                  /\ x_tests[i].code
                        = SubSeq(x_content, m[2],
                                 ClosingPos(x_content, m[2]) - 1)

\* C9 witness: a content with two matches of one name, of which the first
\* was kept.
C9_Witness ==
    /\ x_pc = "done"
    /\ Len(x_tests) = 1
    /\ Cardinality({m \in Matches(x_content) :
                      x_content[m[2]].n = x_tests[1].method_name}) >= 2

\* The braces of a body are balanced: starting at depth 1 after the opening
\* brace the depth stays above zero inside the body and a closing brace
\* right after the body takes it to zero.
RECURSIVE BodyDepth(_, _)
BodyDepth(body, j) ==
    IF j = 0 THEN 1
    ELSE BodyDepth(body, j - 1) + Opens(body[j]) - Closes(body[j])

BalancedBody(body) ==
    /\ \A j \in 1..Len(body) : BodyDepth(body, j) > 0
    /\ BodyDepth(body, Len(body)) = 1

\* C10: every returned test comes from a match whose brace depth (1 after
\* its opening brace) returns to zero before the end of the input, and its
\* body (the recorded text after the header) has balanced braces; a name
\* none of whose matches ever closes has no test in the result.
C10_BalancedBodies ==
    x_pc = "done" =>
        /\ \A i \in 1..Len(x_tests) :
              /\ BalancedBody(Tail(x_tests[i].code))
              /\ \E m \in Matches(x_content) :
                    /\ x_content[m[2]].n = x_tests[i].method_name
                    /\ ClosingPos(x_content, m[2]) # 0
                    /\ x_tests[i].code
                          = SubSeq(x_content, m[2],
                                   ClosingPos(x_content, m[2]) - 1)
        /\ \A n \in MethodNames :
              (\A m \in Matches(x_content) :
                   x_content[m[2]].n = n => ClosingPos(x_content, m[2]) = 0)
                => \A i \in 1..Len(x_tests) : x_tests[i].method_name # n

\* C10 witness: one match was returned (balanced) while another match of the
\* same content never closes and was left out.
C10_Witness ==
    /\ x_pc = "done"
    /\ Len(x_tests) >= 1
    /\ \E m \in Matches(x_content) :
          /\ ClosingPos(x_content, m[2]) = 0
          /\ \A i \in 1..Len(x_tests) :
                x_tests[i].method_name # x_content[m[2]].n

\* The tests returned for the method name n
TestsNamed(n) ==
    { i \in 1..Len(x_tests) : x_tests[i].method_name = n }

\* C32: a method name that has at least one pattern match whose braces are
\* balanced has exactly one test in the result.
C32_BalancedMatchIsReturned ==
    x_pc = "done" =>
        \A n \in MethodNames :
            (\E m \in Matches(x_content) :
                 /\ x_content[m[2]].n = n
                 /\ ClosingPos(x_content, m[2]) # 0)
              => Cardinality(TestsNamed(n)) = 1

\* The number of "{" and of "}" characters in a text
RECURSIVE CountOpens(_)
CountOpens(text) ==
    IF text = <<>> THEN 0 ELSE Opens(Head(text)) + CountOpens(Tail(text))

RECURSIVE CountCloses(_)
CountCloses(text) ==
    IF text = <<>> THEN 0 ELSE Closes(Head(text)) + CountCloses(Tail(text))

\* C33: the text recorded for a test begins at the start of its match and
\* ends with the brace that closes the method's opening brace, so that it
\* has as many opening as closing braces.
C33_CodeThroughClosingBrace ==
    x_pc = "done" =>
        \A i \in 1..Len(x_tests) :
            LET m == FirstMatch(x_content, x_tests[i].method_name)
            IN  /\ x_tests[i].code
                      = SubSeq(x_content, m[2], ClosingPos(x_content, m[2]))
                /\ CountOpens(x_tests[i].code) = CountCloses(x_tests[i].code)

\* The file of the scenario: "extends TestCase" and the method
\* public void testAdd(){ assertEquals(1,1); }
ScenarioTestAdd ==
    << ExtendsTestCase, Hdr("leg", "testAdd"), OtherChar, CloseBrace >>

\* The test was extracted through the inheritance-based convention: no match
\* of the annotation pattern has its name, so the JUnit 3 loop appended it.
FromInheritance(content, t) ==
    \A i \in Pat4Positions(content) : content[i].n # t.method_name

\* C11 as stated: the scenario file yields exactly one test, testAdd, and
\* every test extracted through the inheritance-based convention carries the
\* annotation tag "legacy".
C11_LegacyTag ==
    x_pc = "done" =>
        /\ x_content = ScenarioTestAdd =>
              /\ Len(x_tests) = 1
              /\ x_tests[1].method_name = "testAdd"
              /\ x_tests[1].annotation = "legacy"
        /\ \A i \in 1..Len(x_tests) :
              FromInheritance(x_content, x_tests[i])
                  => x_tests[i].annotation = "legacy"

\* C11 amended: the scenario file yields exactly one test, testAdd, and
\* every test extracted through the inheritance-based convention carries the
\* annotation tag "extends TestCase" (and no other test does).
C11_InheritanceTag ==
    x_pc = "done" =>
        /\ x_content = ScenarioTestAdd =>
              /\ Len(x_tests) = 1
              /\ x_tests[1].method_name = "testAdd"
              /\ x_tests[1].annotation = "extends TestCase"
        /\ \A i \in 1..Len(x_tests) :
              FromInheritance(x_content, x_tests[i])
                  <=> x_tests[i].annotation = "extends TestCase"

C11_Witness ==
    /\ x_pc = "done"
    /\ x_content = ScenarioTestAdd
    /\ Len(x_tests) = 1
    /\ FromInheritance(x_content, x_tests[1])

\* ------------------------------------------------------------------------
\* Claims about candidate derivation
\* ------------------------------------------------------------------------
\* The path has the main-source segment src/main/
IsMainSource(path) ==
    \E i \in 1..(Len(path.dirs) - 1) : SubSeq(path.dirs, i, i + 1) = SrcMain

\* The directories with the main-source segment replaced by src/test
MainToTest(dirs) ==
    [j \in 1..Len(dirs) |->
        IF j >= 2 /\ dirs[j] = "main" /\ dirs[j - 1] = "src"
        THEN "test" ELSE dirs[j]]

\* <Base>Test, <Base>Tests, <Base>IT, <Base>TestCase, Test<Base> in the
\* test-source directory
FiveCandidates(path) ==
    [n \in 1..5 |->
        Path(MainToTest(path.dirs),
             CASE n = 1 -> path.base \o <<"Test">>
               [] n = 2 -> path.base \o <<"Tests">>
               [] n = 3 -> path.base \o <<"IT">>
               [] n = 4 -> path.base \o <<"TestCase">>
               [] OTHER -> <<"Test">> \o path.base,
             ".java")]

\* C12: for every Java file whose path has the main-source segment and
\* which does not look like a test file, _find_test_candidates returns the
\* test-source paths <Base>Test, <Base>Tests, <Base>IT, <Base>TestCase and
\* Test<Base>, in this order.
C12_FiveCandidatesInOrder ==
    /\ c_pc = "done"
    /\ c_file.ext = ".java"
    /\ IsMainSource(c_file)
    /\ ~is_test_file(c_file)
    => c_candidates = FiveCandidates(c_file)

\* ------------------------------------------------------------------------
\* Claims about the sequencer (run_pipeline.main)
\* ------------------------------------------------------------------------
Range(seq) == { seq[i] : i \in 1..Len(seq) }

\* The distinct candidate test paths of a commit: a changed Java file that
\* looks like a test file is its own candidate, any other changed Java file
\* has the candidates derived from its path
CandSet(commit) ==
    UNION { IF is_test_file(commit.files[i]) THEN {commit.files[i]}
            ELSE Range(find_test_candidates(commit.files[i])) :
              i \in { j \in 1..Len(commit.files) :
                        commit.files[j].ext = ".java" } }

\* The number of distinct candidates of the commits Tier 1 had a
\* repository for, among the first n it processed
RECURSIVE DistinctTried(_)
DistinctTried(n) ==
    IF n = 0 THEN 0
    ELSE DistinctTried(n - 1)
           + (IF show_log[n].repo_ok
              THEN Cardinality(CandSet(show_log[n].commit)) ELSE 0)

\* C13: while Tier 1 processes one commit every distinct candidate path is
\* given to git_show exactly once (no path twice, even when two changed
\* files map to it; every candidate is tried whether or not earlier ones
\* were missing), and test_candidates_tried has grown by the number of
\* distinct candidates of each commit.
C13_EachCandidateOnce ==
    /\ \A n \in 1..Len(show_log) :
          LET shown == show_log[n].shown
          IN  /\ \A i, j \in 1..Len(shown) : i # j => shown[i] # shown[j]
              /\ Range(shown) = IF show_log[n].repo_ok
                                THEN CandSet(show_log[n].commit) ELSE {}
    /\ stats.test_candidates_tried = DistinctTried(Len(show_log))

\* C13 witness: a commit whose second changed file maps to a candidate the
\* first one already gave, and whose first candidate was a miss
C13_Witness ==
    \E n \in 1..Len(show_log) :
        /\ show_log[n].repo_ok
        /\ show_log[n].commit.files = <<F_main, F_test>>
        /\ Len(show_log[n].shown) = 5
        /\ git_show(show_log[n].commit.commit_sha,
                    show_log[n].shown[1]) = <<>>
        /\ stats.test_candidates_tried >= 5

Key(c) == <<c.project, c.commit_sha>>
KeysOf(records) == [i \in 1..Len(records) |-> Key(records[i])]
IsPrefix(s, t) == Len(s) <= Len(t) /\ s = SubSeq(t, 1, Len(s))

\* The commits for which Tier 1 extracted nothing, in Tier 1 order
Tier1ZeroKeys ==
    KeysOf(SelectSeq(all_results, LAMBDA r : r.test_methods = 0))

\* C1: Tier 2 processes a commit iff Tier 1 extracted zero test methods for
\* it: the commits handed to check_commits are, at every moment, a prefix of
\* the zero-test commits in Tier 1 order, each at most once, never a commit
\* with a Tier 1 test, and all of them once Tier 2 has finished.
C1_Tier2ExactlyZeroTestCommits ==
    /\ IsPrefix(KeysOf(t2_log), Tier1ZeroKeys)
    /\ \A i, j \in 1..Len(t2_log) : i # j => Key(t2_log[i]) # Key(t2_log[j])
    /\ \A i \in 1..Len(all_results), j \in 1..Len(t2_log) :
          all_results[i].test_methods > 0
              => Key(all_results[i]) # Key(t2_log[j])
    /\ "tier2" \in tier_results => KeysOf(t2_log) = Tier1ZeroKeys

C1_Witness ==
    /\ "tier2" \in tier_results
    /\ t2_log # <<>>
    /\ \E i \in 1..Len(all_results) : all_results[i].test_methods > 0

\* The positions of Tier 3's input whose EvoSuite result has no tests
ZeroPrimary ==
    { i \in 1..Len(evo_results) : evo_results[i].tests_generated = 0 }

\* The Randoop attempts made for the commit at position i of the input
FallbackAttempts(i) ==
    { j \in 1..Len(rd_results) :
        Key(rd_results[j]) = Key(commits_needing[i]) }

\* C2: every commit of Tier 3's input whose EvoSuite result has zero
\* generated tests is passed to Randoop and gets exactly one Randoop attempt:
\* never more than one, and exactly one (with commits_attempted counting each
\* once) when the run is over.
C2_ZeroPrimaryGetsOneFallback ==
    /\ \A i \in ZeroPrimary : Cardinality(FallbackAttempts(i)) <= 1
    /\ "tier3a" \in tier_results =>
          \A i \in ZeroPrimary :
              \E j \in 1..Len(failed_commits) :
                  failed_commits[j] = commits_needing[i]
    /\ "tier3a" \in tier_results /\ pc \in {"report", "done"} =>
          /\ \A i \in ZeroPrimary :
                /\ Cardinality(FallbackAttempts(i)) = 1
                /\ \A j \in FallbackAttempts(i) :
                      rd_results[j].tool = "randoop"
          /\ rd_stats.commits_attempted = Cardinality(ZeroPrimary)

C2_Witness ==
    /\ pc = "done"
    /\ \E i \in ZeroPrimary :
          /\ evo_results[i].status = "failed"
          /\ FallbackAttempts(i) # {}

\* C3: Randoop never runs for a commit whose EvoSuite result has
\* tests_generated > 0, it runs only after EvoSuite has finished every input
\* commit, and its input is exactly the input commits with zero generated
\* tests, in order.
C3_FallbackOnlyAfterPrimaryOnZero ==
    /\ r_i > 0 \/ rd_results # <<>> \/ failed_commits # <<>> =>
          /\ e_i = Len(commits_needing)
          /\ Len(evo_results) = Len(commits_needing)
          /\ "tier3a" \in tier_results
    /\ \A i \in 1..Len(evo_results) :
          evo_results[i].tests_generated > 0 => FallbackAttempts(i) = {}
    /\ "tier3a" \in tier_results =>
          KeysOf(failed_commits)
              = KeysOf(SelectSeq(evo_results,
                                 LAMBDA r : r.tests_generated = 0))
    /\ IsPrefix(KeysOf(rd_results), KeysOf(failed_commits))

C3_Witness ==
    /\ pc = "done"
    /\ rd_results # <<>>
    /\ \E i \in 1..Len(evo_results) : evo_results[i].tests_generated > 0

\* The commits of the dataset lines read so far (unparsable lines skipped)
CommitsRead ==
    SelectSeq(SubSeq(dataset, 1, idx - 1), LAMBDA c : c # Malformed)

\* C18: a clone failure, a build failure or a timeout for one commit never
\* aborts the run. Tier 1 has exactly one result per commit read, in input
\* order, and ends only at the end of its input; Tier 2 checks every commit
\* handed to it once, in order; each generator's process_commits has exactly
\* one result per input commit, in input order, and ends only after the last
\* one; the run stops early only on a dataset line that is not JSON.
C18_FailuresDoNotAbort ==
    /\ pc = "aborted" => \E i \in 1..Len(dataset) : dataset[i] = Malformed
    /\ KeysOf(all_results) = KeysOf(CommitsRead)
    /\ stats.commits_processed = Len(all_results)
    /\ "tier1" \in tier_results => idx > Len(dataset) \/ LimitReached
    /\ KeysOf(t2_log) = KeysOf(SubSeq(commits_without_tests, 1, t2_i))
    /\ t2_stats.checked = t2_i
    /\ "tier2" \in tier_results => t2_i = Len(commits_without_tests)
    /\ KeysOf(evo_results) = KeysOf(SubSeq(commits_needing, 1, e_i))
    /\ evo_stats.commits_attempted = e_i
    /\ "tier3a" \in tier_results => e_i = Len(commits_needing)
    /\ KeysOf(rd_results) = KeysOf(SubSeq(failed_commits, 1, r_i))
    /\ rd_stats.commits_attempted = r_i
    /\ "tier3b" \in tier_results => r_i = Len(failed_commits)

\* C18 witness: the first commit's clone failed in Tier 1 and its EvoSuite
\* and Randoop attempts failed, and the second commit was still processed
\* by every tier
C18_Witness ==
    /\ pc = "done"
    /\ Len(all_results) = 2
    /\ Len(show_log) = 2
    /\ ~show_log[1].repo_ok
    /\ stats.clone_failures > 0
    /\ t2_stats.checked = 2
    /\ Len(evo_results) = 2
    /\ evo_results[1].status = "failed"
    /\ Len(rd_results) = 2
    /\ rd_results[1].status = "failed"

\* C21: a dataset line that is not valid JSON never ends the run, whether
\* Tier 1 or Tier 3 reads the dataset: the line is skipped and the lines
\* after it are processed.
C21_MalformedLineNeverAborts ==
    /\ pc # "aborted"
    /\ KeysOf(all_results) = KeysOf(CommitsRead)
    /\ args_tier = 3 /\ pc \in {"tier3a", "tier3b", "report", "done"} =>
          \A i \in 1..Len(dataset) :
              /\ dataset[i] # Malformed
              /\ args_limit = NoLimit \/ i <= args_limit
              => \E j \in 1..Len(commits_needing) :
                        commits_needing[j] = dataset[i]

\* C22: in a full run every commit record handed to Tier 3 has the
\* changed-file records of its dataset record.
C22_Tier3InputCarriesFiles ==
    args_tier = NoTier =>
        \A i \in 1..Len(commits_needing) :
            \E j \in 1..Len(dataset) :
                /\ Key(dataset[j]) = Key(commits_needing[i])
                /\ dataset[j].files = commits_needing[i].files

\* The commits Tier 2 has checked for which a recovered test is stored
RecoveredCommits ==
    { i \in 1..Len(t2_log) :
        \E k \in 1..Len(recovered_tests) :
            Key(recovered_tests[k]) = Key(t2_log[i]) }

C35_Tier1Counters ==
    /\ stats.test_methods_extracted = Len(all_tests)
    /\ stats.commits_with_zero_tests = Len(commits_without_tests)
    /\ stats.commits_with_zero_tests <= stats.commits_processed
    /\ stats.test_files_found <= stats.test_candidates_tried
    /\ stats.commits_processed = Len(show_log)
    /\ Len(all_results) = Len(show_log)
    /\ \A i \in 1..Len(show_log) :
          ~show_log[i].repo_ok =>
              /\ all_results[i].project = show_log[i].commit.project
              /\ all_results[i].commit_sha = show_log[i].commit.commit_sha
              /\ all_results[i].test_methods = 0
              /\ \E j \in 1..Len(commits_without_tests) :
                    commits_without_tests[j] = show_log[i].commit

C35_Witness ==
    /\ Len(show_log) = 2
    /\ \E i \in 1..2 : ~show_log[i].repo_ok
    /\ stats.commits_processed = 2
    /\ stats.commits_with_zero_tests = 1
    /\ stats.test_methods_extracted > 0
    /\ stats.test_files_found < stats.test_candidates_tried

\* C15: in one process clone_repo runs "git clone --bare" at most once per
\* project; every call for a project, in Tier 1 or Tier 2, returns what the
\* first call returned (the directory or None), and clone_failures counts
\* each project whose clone failed exactly once.
C15_OneClonePerProject ==
    /\ \A p \in Projects :
          /\ clone_calls[p].runs <= 1
          /\ Cardinality(clone_calls[p].rets) <= 1
          /\ clone_calls[p].calls > 0 =>
                /\ cloned[p] \in {"dir", "none"}
                /\ clone_calls[p].rets = {cloned[p]}
    /\ stats.clone_failures =
          Cardinality({ p \in Projects : clone_calls[p].rets = {"none"} })

\* C15 witness: a project whose clone failed on the first call and which
\* was asked for again in Tier 1 and in Tier 2
C15_Witness ==
    /\ pc = "tier3"
    /\ t2_i >= 1
    /\ \E p \in Projects :
          /\ clone_calls[p].calls >= 3
          /\ clone_calls[p].runs = 1
          /\ clone_calls[p].rets = {"none"}
    /\ stats.clone_failures = 1

\* ------------------------------------------------------------------------
\* Claims about two runs
\* ------------------------------------------------------------------------
\* Tier 1 has finished in both runs, on the same dataset and limit, and the
\* second run found the repository cache as the first run had found it
Tier1RanTwice ==
    /\ run_no = 2
    /\ "tier1" \in tier_results
    /\ first.out.exists
    /\ first.limit = args_limit
    /\ first.start_repo = start_repo

\* What clone_repo returned for each project in this run
CloneResults == [p \in Projects |-> clone_calls[p].rets]

\* C14 as stated: re-running Tier 1 on the same dataset with the same
\* repository cache state gives the same extracted tests and statistics.
C14_RerunIdentical ==
    Tier1RanTwice =>
        /\ t1_out.tests = first.out.tests
        /\ t1_out.stats = first.out.stats

\* C14 amended: re-running Tier 1 on the same dataset with the same
\* repository cache state gives the same extracted tests, per-commit
\* results and statistics when the git commands of both runs have the same
\* outcomes (here: clone_repo returned the same for every project).
C14_RerunIdenticalSameGit ==
    Tier1RanTwice /\ first.rets = CloneResults =>
        /\ t1_out.tests = first.out.tests
        /\ t1_out.stats = first.out.stats
        /\ t1_out.results = first.out.results

\* C14 witness: both runs found the project cloned and extracted a test
C14_Witness ==
    /\ Tier1RanTwice
    /\ first.rets = CloneResults
    /\ t1_out.tests # <<>>
    /\ t1_out.stats.test_candidates_tried > 0

\* C24: when the bare clone of a project failed in the first run, the first
\* clone_repo call for that project in the second run runs the clone again;
\* what it returns is never a directory the failed clone left behind.
C24_RestartRetriesClone ==
    run_no = 2 =>
        \A p \in Projects :
            "none" \in first.rets[p] /\ clone_calls[p].calls > 0
                => clone_calls[p].runs = 1

\* C20: when only Tier 2 is selected in a run that follows a completed
\* Tier 1 run, Tier 2 runs and processes the commits-without-tests list that
\* Tier 1 persisted.
C20_Tier2AloneRunsTier2 ==
    /\ run_no = 2
    /\ first.out.exists
    /\ cwt_file.exists
    /\ args_tier = 2
    /\ pc = "done"
    => /\ "tier2" \in tier_results
       /\ KeysOf(t2_log) = KeysOf(cwt_file.data)

\* The tests Tier 1 extracted or Tier 2 recovered for a commit
EarlierTests(c) ==
    { i \in 1..Len(all_tests) : Key(all_tests[i]) = Key(c) }
        \cup { Len(all_tests) + i : i \in
                 { k \in 1..Len(recovered_tests) :
                     Key(recovered_tests[k]) = Key(c) } }

\* C4: in a full run a commit is in Tier 3's input only if Tier 1 and Tier 2
\* both produced no test for it.
C4_Tier3InputLacksTests ==
    args_tier = NoTier =>
        \A i \in 1..Len(commits_needing) :
            EarlierTests(commits_needing[i]) = {}

\* ------------------------------------------------------------------------
\* Claims about one Tier 3 generator
\* ------------------------------------------------------------------------
\* C5: every result has status success, no_tests or failed; success exactly
\* when tests_generated > 0, no_tests exactly when the generator stage was
\* reached and returned zero, failed exactly when checkout, build or class
\* selection failed; failures counts each failed commit once.
C5_StatusMatchesStage ==
    /\ Len(g_hist) = Len(g_results)
    /\ \A i \in 1..Len(g_results) :
          LET r == g_results[i]
              h == g_hist[i]
          IN  /\ r.status \in {"success", "no_tests", "failed"}
              /\ r.status = "success" <=> r.tests_generated > 0
              /\ r.status = "no_tests" <=>
                    h.ended = "generate" /\ h.returned = 0
              /\ r.status = "failed" <=>
                    h.ended \in {"checkout", "build", "select"}
              /\ r.tests_generated = h.returned
    /\ g_stats.failures =
          Cardinality({ i \in 1..Len(g_results) :
                          g_results[i].status = "failed" })

C5_Witness ==
    /\ g_pc = "done"
    /\ \E i, j \in 1..Len(g_results) :
          /\ g_results[i].status = "failed" /\ g_hist[i].ended = "select"
          /\ g_results[j].status = "no_tests"

\* The stage an external call belongs to
StageRank(e) ==
    CASE e.ev = "checkout" -> 1
      [] e.ev \in {"root_install", "tooling_install", "build_scoped",
                   "build_full", "build_fallback", "classpath"} -> 2
      [] e.ev = "select" -> 3
      [] OTHER -> 4

BuildRuns == {"build_scoped", "build_full", "build_fallback"}

\* C6: for one commit the stages run in the order checkout, build, class
\* selection, generation; nothing follows a failed checkout; when the main
\* goal of a commit with a target module finds no output directory the
\* full-project build is the next call; and class selection and generation
\* happen only after a build that found output directories.
C6_StagesInOrder ==
    /\ \A i, j \in 1..Len(g_log) :
          i < j => StageRank(g_log[i]) <= StageRank(g_log[j])
    /\ g_log # <<>> => g_log[1].ev = "checkout"
    /\ \A i \in 1..Len(g_log) :
          g_log[i].ev = "checkout" /\ g_log[i].exit = "failed"
              => i = Len(g_log) /\ g_pc \in {"loop", "done"}
    /\ \A i \in 1..Len(g_log) :
          /\ g_log[i].ev \in {"build_scoped", "build_full"}
          /\ g_log[i].exit = "none"
          /\ g_module # <<>>
          => IF i = Len(g_log) THEN g_pc = "compile_fallback"
             ELSE g_log[i + 1].ev = "build_fallback"
    /\ \A j \in 1..Len(g_log) :
          StageRank(g_log[j]) >= 3 =>
              \E i \in 1..(j - 1) :
                  /\ g_log[i].ev \in BuildRuns
                  /\ g_log[i].exit = "found"
                  /\ \A h \in (i + 1)..(j - 1) : g_log[h].ev \notin BuildRuns
    /\ \A i \in 1..Len(g_log) :
          g_log[i].ev = "build_fallback" /\ g_log[i].exit # "found"
              => /\ i = Len(g_log)
                 /\ g_pc \in {"loop", "done"}
                 /\ g_results[g_i].status = "failed"

C6_Witness ==
    /\ g_pc = "loop"
    /\ Len(g_log) >= 3
    /\ g_log[Len(g_log) - 1].ev = "build_scoped"
    /\ g_log[Len(g_log) - 1].exit = "none"
    /\ g_log[Len(g_log)].ev = "build_fallback"
    /\ g_log[Len(g_log)].exit = "none"

\* The positions in the history of the tool runs made for the commit
GenRuns == { i \in 1..Len(g_log) : g_log[i].ev = "generate" }

\* C7 as stated: once the output of EvoSuite for a class holds a fatal crash
\* signature, no later class of the commit is attempted.
C7_SignatureEndsLoop ==
    g_tool = "evosuite" =>
        \A i, j \in GenRuns : g_log[i].sig => j <= i

\* C7 amended: once EvoSuite exits non-zero for a class with a fatal crash
\* signature in its output, no later class of the commit is attempted, and
\* the commit still gets a result, after which the loop over the commits
\* goes on.
C7_CrashEndsLoop ==
    g_tool = "evosuite" =>
        \A i \in GenRuns :
            g_log[i].exit = "nonzero" /\ g_log[i].sig =>
                /\ \A j \in GenRuns : j <= i
                /\ g_pc \in {"return", "loop", "done"}
                /\ g_pc \in {"loop", "done"} =>
                      /\ Len(g_results) = g_i
                      /\ g_results[g_i].project = GenCommit.project
                      /\ g_results[g_i].commit_sha = GenCommit.commit_sha

C7_Witness ==
    /\ g_tool = "evosuite"
    /\ g_pc = "loop"
    /\ \E i \in GenRuns :
          /\ g_log[i].exit = "nonzero"
          /\ g_log[i].sig
          /\ g_log[i].k < Len(g_classes)
    /\ Len(g_results) = g_i

\* The runs are for the classes in list order, one run per class at most
RunsInListOrder ==
    /\ Cardinality(GenRuns) <= Len(g_classes)
    /\ \A i \in GenRuns :
          g_log[i].k = Cardinality({ j \in GenRuns : j <= i })

\* C8 as stated: classes are attempted in list order, after the first class
\* that yields a generated test file no further class is run, and there are
\* no more runs than candidate classes.
C8_FirstYieldEndsLoop ==
    g_tool = "evosuite" =>
        /\ RunsInListOrder
        /\ \A i, j \in GenRuns : g_log[i].wrote > 0 => j <= i

\* C8 amended: classes are attempted in list order, after the first class
\* whose run exits with code 0 and leaves at least one test file in the
\* output directory no further class is run, and there are no more runs
\* than candidate classes.
C8_FirstSuccessEndsLoop ==
    g_tool = "evosuite" =>
        /\ RunsInListOrder
        /\ \A i, j \in GenRuns :
              g_log[i].exit = "zero" /\ g_log[i].files > 0 => j <= i

C8_Witness ==
    /\ g_tool = "evosuite"
    /\ g_pc = "loop"
    /\ \E i \in GenRuns :
          /\ g_log[i].exit = "zero"
          /\ g_log[i].wrote > 0
          /\ g_log[i].k < Len(g_classes)
    /\ g_results[g_i].status = "success"

\* C28: in the loop of EvoSuite, a run for class k that exits non-zero
\* without a crash signature, that times out, or that exits with code 0
\* having produced no test file does not end the loop: the next run, if
\* class k is not the last, is for class k + 1.
C28_FailureAdvances ==
    g_tool = "evosuite" =>
        \A i \in GenRuns :
            /\ \/ g_log[i].exit = "nonzero" /\ ~g_log[i].sig
               \/ g_log[i].exit = "timeout"
               \/ g_log[i].exit = "zero" /\ g_log[i].wrote = 0
            /\ g_log[i].k < Len(g_classes)
            => IF i = Len(g_log) THEN g_pc = "generate"
               ELSE /\ g_log[i + 1].ev = "generate"
                    /\ g_log[i + 1].k = g_log[i].k + 1

\* The clone_and_checkout calls made for the current commit
CheckoutCalls == { i \in 1..Len(g_log) : g_log[i].ev = "checkout" }

\* C16 as stated: whenever clone_and_checkout returns a directory, HEAD was
\* read back and matches the requested revision.
C16_HandleOnlyVerified ==
    \A i \in CheckoutCalls :
        g_log[i].exit = "ok" => g_log[i].readback = "match"

\* C16 amended: whenever clone_and_checkout returns a directory, either HEAD
\* was read back and matches the requested revision (then the directory is
\* at that revision), or the directory was freshly cloned and the command
\* reading HEAD back exited with an error; a directory whose HEAD was read
\* back and does not match is never returned, and a reused directory is
\* returned only with a matching HEAD.
C16_HandleNeverMismatched ==
    \A i \in CheckoutCalls :
        /\ g_log[i].exit = "ok" =>
              \/ g_log[i].readback = "match"
              \/ g_log[i].cloned /\ g_log[i].readback = "error"
        /\ g_log[i].exit = "ok" /\ g_log[i].readback = "match" =>
              /\ g_repo[GenCommit.project].exists
              /\ g_repo[GenCommit.project].head = GenCommit.commit_sha
        /\ g_log[i].readback = "mismatch" => g_log[i].exit = "failed"

\* C16 witness: a fresh clone was returned although HEAD could not be read
\* back, and it is at another revision
C16_Witness ==
    /\ g_pc = "compile"
    /\ \E i \in CheckoutCalls :
          /\ g_log[i].exit = "ok"
          /\ g_log[i].cloned
          /\ g_log[i].readback = "error"
    /\ g_repo[GenCommit.project].head # GenCommit.commit_sha

\* C17: when the existing copy fails its verification (or the reuse step
\* raises), the copy is deleted and git clone is run once in that call; a
\* second verification failure returns failure.
C17_FailedReuseDeletesAndClonesOnce ==
    \A i \in CheckoutCalls :
        g_log[i].reuse_failed =>
            /\ g_log[i].removed
            /\ g_log[i].cloned
            /\ g_log[i].readback = "mismatch" => g_log[i].exit = "failed"

\* The reason a result records, "none" when it has no such field
ReasonOf(result) ==
    IF "reason" \in DOMAIN result THEN result.reason ELSE "none"

\* C19: a result with status failed records the reason "clone/checkout"
\* when the checkout stage failed and "compile" when the build left no
\* compiled-output directory.
C19_FailedRecordsReason ==
    \A i \in 1..Len(g_results) :
        g_results[i].status = "failed" =>
            /\ g_hist[i].ended = "checkout" =>
                  ReasonOf(g_results[i]) = "clone/checkout"
            /\ g_hist[i].ended = "build" =>
                  ReasonOf(g_results[i]) = "compile"

\* C25: the target module is a path prefix of every changed file in which a
\* marker was found, and the changed-file list determines it.
C25_ModuleContainsChangedFiles ==
    /\ g_pc \in {"compile_main", "compile_fallback", "compile_cp"} =>
          \A i \in 1..Len(GenCommit.files) :
              /\ g_module # <<>>
              /\ ModuleOf(GenCommit.files[i], ModuleMarkers) # <<>>
              => UnderPrefix(GenCommit.files[i], g_module)
    /\ g_pc = "compile" =>
          Cardinality(extract_module_from_files(GenCommit.files)) = 1

\* The runs of the main build goal for the current commit
MainBuilds ==
    { i \in 1..Len(g_log) :
        g_log[i].ev \in {"build_scoped", "build_full", "build_fallback"} }

\* compile_project has returned for the current commit: the commit has its
\* result or class selection has begun
CompileReturned == g_pc \in {"loop", "done", "select", "generate", "return"}

\* C26: the main build goal is run at most twice per commit; the second run
\* is the full-project install, it happens only, and then once, when a
\* target module is set and the first run left no compiled-output
\* directory; compile_project fails when there is still none and returns a
\* classpath otherwise.
C26_BuildRunsAndClasspath ==
    /\ Cardinality(MainBuilds) <= 2
    /\ \A i \in MainBuilds :
          g_log[i].ev = "build_fallback" <=>
              /\ i > 1
              /\ g_log[i - 1].ev \in {"build_scoped", "build_full"}
              /\ g_log[i - 1].exit = "none"
              /\ g_module # <<>>
    /\ CompileReturned /\ MainBuilds # {} /\ g_i > 0 =>
          LET last == CHOOSE i \in MainBuilds : \A j \in MainBuilds : j <= i
          IN  IF g_log[last].exit = "found"
              THEN \/ g_pc \in {"select", "generate", "return"}
                   \/ g_hist[Len(g_hist)].ended \in {"select", "generate"}
              ELSE /\ g_pc \in {"loop", "done"}
                   /\ g_hist[Len(g_hist)].ended = "build"

\* The best-effort installs made for the current commit
PreInstalls ==
    { i \in 1..Len(g_log) :
        g_log[i].ev \in {"root_install", "tooling_install"} }

\* C27: a failure of the root install or of a tooling pre-install, a
\* timeout included, is ignored: the main build goal is still run for the
\* commit.
C27_PreInstallFailureIgnored ==
    CompileReturned =>
        \A i \in PreInstalls : \E j \in MainBuilds : i < j

\* C23: once git clone has failed for a project, no later commit of that
\* project handled by the same generator runs git clone again.
C23_FailedCloneNotRetried ==
    \A i, j \in 1..Len(g_hist) :
        /\ i < j
        /\ g_results[i].project = g_results[j].project
        /\ g_hist[i].clone = "failed"
        => g_hist[j].clone = "none"

\* The steps at which the generator waits for an external operation that
\* was given no timeout
NoCeiling == {"download"}

\* C29: every external operation a Tier 3 generator waits for has a
\* timeout, every commit it has finished has exactly one result, with a
\* status in {success, no_tests, failed}, and at the end every commit given
\* to it has one.
C29_EveryCommitTerminates ==
    /\ g_pc \notin NoCeiling
    /\ \A i \in 1..Len(g_results) :
          g_results[i].status \in {"success", "no_tests", "failed"}
    /\ Len(g_results) =
          IF g_pc \in {"construct", "download", "loop", "done"}
          THEN g_i ELSE g_i - 1
    /\ g_pc = "done" => Len(g_results) = Len(g_commits)

\* The identity fields of an extracted test: fqcn is package.class, or the
\* class alone when no package is declared
IdentityRecorded(t) ==
    /\ t.project \in Projects
    /\ t.commit_sha # NoRevision
    /\ t.class_name # <<>>
    /\ t.fqcn = IF t.package # "None" THEN <<t.package>> \o t.class_name
                ELSE t.class_name

\* C31: every extracted test records the tier that produced it (1 for the
\* tests of Tier 1, 2 for the tests of Tier 2) together with project,
\* revision, class name, optional package and fully qualified class name.
C31_TestsRecordTier ==
    /\ \A i \in 1..Len(all_tests) :
          IdentityRecorded(all_tests[i]) /\ all_tests[i].tier = 1
    /\ \A i \in 1..Len(recovered_tests) :
          IdentityRecorded(recovered_tests[i]) /\ recovered_tests[i].tier = 2

\* The sum of tests_generated over results
RECURSIVE SumGenerated(_)
SumGenerated(results) ==
    IF results = <<>> THEN 0
    ELSE Head(results).tests_generated + SumGenerated(Tail(results))

\* The counters of a generator between two commits and at the end
CountersAgree ==
    g_pc \in {"loop", "done"} =>
        /\ g_stats.commits_attempted >= g_stats.commits_cloned
        /\ g_stats.commits_cloned >= g_stats.commits_compiled
        /\ g_stats.failures =
              Cardinality({ i \in 1..Len(g_results) :
                              g_results[i].status = "failed" })
        /\ g_stats.commits_attempted = Len(g_results)
        /\ g_stats.tests_generated = SumGenerated(g_results)

\* One step does not lower a counter
CountersGrow ==
    \A c \in DOMAIN g_stats : g_stats'[c] >= g_stats[c]

\* C34: after any sequence of commits a generator has processed,
\* commits_attempted >= commits_cloned >= commits_compiled, failures is the
\* number of results with status failed, commits_attempted is the number of
\* results and tests_generated is the sum of tests_generated over the
\* results; no counter ever decreases.
C34_CountersConsistent == [](CountersAgree) /\ [][CountersGrow]_vars

C34_Witness ==
    /\ g_pc = "done"
    /\ Len(g_results) = 2
    /\ g_stats.commits_attempted = 2
    /\ g_stats.commits_cloned = 1
    /\ g_stats.commits_compiled = 1
    /\ g_stats.failures = 1
    /\ g_stats.tests_generated > 0

\* Tier 2 has worked on the one commit of the dataset, and the clone of its
\* project was there
TreeChecked ==
    /\ t2_i = 1
    /\ Len(commits_without_tests) = 1
    /\ cloned[commits_without_tests[1].project] = "dir"

\* What check_commits computes for the commit when it iterates the prefixes
\* in the given order
TreeRun(order) ==
    PrefixLoop(order, commits_without_tests[1].project,
               Readable(bare_repo[commits_without_tests[1].project],
                        commits_without_tests[1].commit_sha),
               TreeAcc0)

\* C36: the set of tests Tier 2 recovers for a commit and its two counters
\* are the same for every order in which the prefixes are iterated, and no
\* file is retrieved twice for a commit, also when one prefix lies inside
\* another.
C36_PrefixOrderIrrelevant ==
    TreeChecked =>
        \A order \in Orders(PrefixesOf(commits_without_tests[1])) :
            LET acc == TreeRun(order)
            IN  /\ Range(acc.tests) = Range(recovered_tests)
                /\ Len(acc.tests) = t2_stats.methods_recovered
                /\ CountRecovered(0, acc) = t2_stats.recovered
                /\ \A i, j \in 1..Len(acc.shown) :
                      i # j => acc.shown[i] # acc.shown[j]

C36_Witness ==
    /\ TreeChecked
    /\ F_main \in Range(commits_without_tests[1].files)
    /\ F_sub \in Range(commits_without_tests[1].files)
    /\ Cardinality(PrefixesOf(commits_without_tests[1])) = 3
    /\ t2_stats.methods_recovered = 3
    /\ t2_stats.recovered = 1

\* The files git ls-tree lists under the prefixes derived for the commit
ListedUnderPrefixes ==
    UNION { Range(git_ls_tree(commits_without_tests[1].commit_sha, pfx)) :
              pfx \in PrefixesOf(commits_without_tests[1]) }

\* C37 as stated: every derived prefix contains the test-source segment, no
\* file listed under a derived prefix is rejected by is_test_file, and
\* every such file is retrieved and given to extract_test_methods.
C37_ListedFilesAllExtracted ==
    TreeChecked =>
        /\ \A pfx \in PrefixesOf(commits_without_tests[1]) :
              HasSegs(Path(pfx, <<>>, ""), SrcTest)
        /\ \A tf \in ListedUnderPrefixes : is_test_file(tf)
        /\ \A order \in Orders(PrefixesOf(commits_without_tests[1])) :
              /\ Range(TreeRun(order).shown) = ListedUnderPrefixes
              /\ Range(TreeRun(order).parsed) = ListedUnderPrefixes

\* C37 amended: every derived prefix contains the test-source segment, no
\* file listed under a derived prefix is rejected by is_test_file, every
\* such file is retrieved, and it is given to extract_test_methods exactly
\* when git show returned a non-empty content for it.
C37_ListedFilesAllRetrieved ==
    TreeChecked =>
        /\ \A pfx \in PrefixesOf(commits_without_tests[1]) :
              HasSegs(Path(pfx, <<>>, ""), SrcTest)
        /\ \A tf \in ListedUnderPrefixes : is_test_file(tf)
        /\ \A order \in Orders(PrefixesOf(commits_without_tests[1])) :
              /\ Range(TreeRun(order).shown) = ListedUnderPrefixes
              /\ Range(TreeRun(order).parsed) =
                    { tf \in ListedUnderPrefixes :
                        git_show(commits_without_tests[1].commit_sha, tf)
                            # <<>> }

C37_Witness ==
    /\ TreeChecked
    /\ F_data \in ListedUnderPrefixes
    /\ F_keep \in ListedUnderPrefixes
    /\ t2_stats.methods_recovered = 3

\* C38: a result has status success only if a run of the generator made
\* for that commit wrote at least one test file; files that were in the
\* commit's output directory before do not make it a success.
C38_SuccessNeedsNewFile ==
    /\ g_pc \in {"loop", "done"}
    /\ g_i > 0
    /\ g_results[g_i].status = "success"
    => \E i \in GenRuns : g_log[i].wrote > 0

\* C39: when clone_and_checkout has returned failure, no working-tree copy
\* of the project is on disk.
C39_FailureLeavesNoCopy ==
    /\ g_pc \in {"loop", "done"}
    /\ g_log # <<>>
    /\ g_log[Len(g_log)].ev = "checkout"
    /\ g_log[Len(g_log)].exit = "failed"
    => ~g_repo[GenCommit.project].exists

====
